---- MODULE Spec2Model ----
(***************************************************************************)
(* The Mirror Kernel of the gordian consensus engine                       *)
(* (tm/tmengine/internal/tmmirror/internal/tmi/kernel.go).                 *)
(*                                                                         *)
(* The kernel is one goroutine, mainLoop, that owns a kState value and     *)
(* handles exactly one select case per iteration.  Every case of the       *)
(* select is one action below; a handler and everything it calls is one    *)
(* atomic step.  Handlers are written as operators from a kState record    *)
(* to the SET of kState records the handler can end in (Go's map           *)
(* iteration order and its select between several ready cases are the      *)
(* only sources of nondeterminism inside a handler).                       *)
(***************************************************************************)
EXTENDS Integers, Sequences, FiniteSets, TLC

(***************************************************************************)
(* Bounds of the model.                                                    *)
(***************************************************************************)
NumVals == 2        \* validators 1..NumVals (the kernel test runs with 2)
MaxChanges == 2     \* Spec: requests are handled until this many of them changed the kState
MaxChainChanges == 6 \* SpecChain: the same, for the requests of an orderly network
MaxOutChanges == 2  \* SpecOut: the same, with the kernel's outputs between the requests
MaxLoopChanges == 1 \* SpecLoop: the same, for requests that wait on the input channels
MaxAskChanges == 2  \* SpecAsk: the same, with the requests that only ask
MaxScenarioChanges == 2 \* SpecScenario: the same, for the votes of the scenarios' validators
MaxSnapChanges == 3 \* SpecSnap: the same, for requests built on snapshots, one of them waiting
FetchCap == 1       \* capacity of the buffered FetchRequests channel

(***************************************************************************)
(* Program constants.                                                      *)
(***************************************************************************)
InitialHeight == 1  \* KernelConfig.InitialHeight, "Usually 1"
VotePower == 10     \* every validator's power (the scenarios' equal power)
ScenarioNumVals == 4 \* the validators of the scenarios
SnapNumVals == 7    \* SpecSnap: the fewest equal validators with two outside a majority

Vals == 1..NumVals
BlockHashes == {"a", "b"}
NilHash == ""
Hashes == {NilHash} \cup BlockHashes

\* The byte order of the hashes, used for the most-voted tie-break.
HashOrder(h) == CASE h = "" -> 0 [] h = "a" -> 1 [] h = "b" -> 2

EmptyMap == [h \in {} |-> 0]
ZeroVersions == [h \in Hashes |-> 0]

\* Reading a Go map: the zero value for a missing key.
Get0(m, k) == IF k \in DOMAIN m THEN m[k] ELSE 0

\* m[k] = v on a Go map.
MapSet(m, k, v) == [x \in (DOMAIN m) \cup {k} |-> IF x = k THEN v ELSE m[x]]

(***************************************************************************)
(* Voting power.                                                           *)
(***************************************************************************)
RECURSIVE SumPower(_)
SumPower(S) == IF S = {} THEN 0
               ELSE LET v == CHOOSE x \in S : TRUE
                    IN VotePower + SumPower(S \ {v})

\* The power behind a proof: the validators of vals whose bit is set.
ProofPower(proof, vals) == SumPower(proof \cap vals)

ByzantineMajorityOfForty(p) == (3 * p) \div 4 + 1

ByzantineMajority(p) == (2 * p) \div 3 + 1
ByzantineMinority(p) == p \div 3 + 1

RECURSIVE SumMap(_, _)
SumMap(m, D) == IF D = {} THEN 0
                ELSE LET k == CHOOSE x \in D : TRUE
                     IN m[k] + SumMap(m, D \ {k})

\* The hash with the most power; ties go to the lower hash, "" when no
\* hash has any power.
MostVoted(pow) ==
    LET best == {h \in DOMAIN pow : pow[h] > 0 /\ \A g \in DOMAIN pow : pow[g] <= pow[h]}
    IN IF best = {} THEN NilHash
       ELSE CHOOSE h \in best : \A g \in best : HashOrder(h) <= HashOrder(g)

NewVoteSummary ==
    [AvailablePower |-> 0,
     PrevoteBlockPower |-> EmptyMap, PrecommitBlockPower |-> EmptyMap,
     TotalPrevotePower |-> 0, TotalPrecommitPower |-> 0,
     MostVotedPrevoteHash |-> NilHash, MostVotedPrecommitHash |-> NilHash]

SetAvailablePower(vs, vals) == [vs EXCEPT !.AvailablePower = SumPower(vals)]

BlockPowers(vals, proofs) == [h \in DOMAIN proofs |-> ProofPower(proofs[h], vals)]

SetPrevotePowers(vs, vals, proofs) ==
    LET pow == BlockPowers(vals, proofs)
    IN [vs EXCEPT !.PrevoteBlockPower = pow,
                  !.TotalPrevotePower = SumMap(pow, DOMAIN pow),
                  !.MostVotedPrevoteHash = MostVoted(pow)]

SetPrecommitPowers(vs, vals, proofs) ==
    LET pow == BlockPowers(vals, proofs)
    IN [vs EXCEPT !.PrecommitBlockPower = pow,
                  !.TotalPrecommitPower = SumMap(pow, DOMAIN pow),
                  !.MostVotedPrecommitHash = MostVoted(pow)]

\* VoteSummary.ResetForSameHeight keeps the available power.
VoteSummaryResetForSameHeight(vs) == [NewVoteSummary EXCEPT !.AvailablePower = vs.AvailablePower]

newVoteDistribution(proofs, vals) ==
    [AvailableVotePower |-> SumPower(vals), BlockVotePower |-> BlockPowers(vals, proofs)]

(***************************************************************************)
(* Proposed blocks.                                                        *)
(***************************************************************************)
\* The zero tmconsensus.Block: kState.CommittingBlock before any commit.
ZeroBlock ==
    [Hash |-> NilHash, Height |-> 0, PrevCommitProof |-> [Round |-> 0, Proofs |-> EmptyMap],
     Validators |-> {}, NextValidators |-> {}]

\* A block's next validator set: block "b" drops the last validator.
NextValidatorsOf(hash) == IF hash = "b" /\ NumVals > 1 THEN Vals \ {NumVals} ELSE Vals

\* A tmconsensus.CommitProof: sparse precommit signatures of the given round.
CommitProof(r, proofs) == [Round |-> r, Proofs |-> proofs]

\* The proposed block of the given height and round with the given hash,
\* the given commit proof for the previous height and the given validators.
ProposedBlock(h, r, hash, pcp, vals) ==
    [Block |-> [Hash |-> hash, Height |-> h,
                PrevCommitProof |-> pcp,
                Validators |-> vals,
                NextValidators |-> NextValidatorsOf(hash)],
     Round |-> r,
     Signature |-> <<"sig", hash>>]

(***************************************************************************)
(* RoundView, VersionedRoundView, View.                                    *)
(***************************************************************************)
\* The zero VersionedRoundView with the given height and round.
ZeroVRV(h, r) ==
    [Height |-> h, Round |-> r, Validators |-> {},
     ProposedBlocks |-> <<>>,
     PrevoteProofs |-> EmptyMap, PrecommitProofs |-> EmptyMap,
     VoteSummary |-> NewVoteSummary,
     Version |-> 0, PrevoteVersion |-> 0, PrecommitVersion |-> 0,
     PrevoteBlockVersions |-> ZeroVersions, PrecommitBlockVersions |-> ZeroVersions]

\* The proofs getInitialNilProofs returns: no signature yet.
NilProofs == [h \in {NilHash} |-> {}]

\* RoundView.ResetForSameHeight + resetVersions.
VRVResetForSameHeight(vrv) ==
    [ZeroVRV(vrv.Height, 0) EXCEPT
        !.Validators = vrv.Validators,
        !.VoteSummary = VoteSummaryResetForSameHeight(vrv.VoteSummary)]

\* RoundView.Reset + resetVersions.
VRVReset(vrv) == ZeroVRV(0, 0)

\* v.VRV.Version++, without v.Outgoing.VRV = v.VRV.Clone() and without
\* v.Outgoing.Sent = false
UpdateOutgoingStale(view) == [view EXCEPT !.VRV.Version = @ + 1]

\* View.UpdateOutgoing: bump the overall version, take a clone as the
\* outgoing value and mark it unsent.
UpdateOutgoing(view) ==
    LET vrv == [view.VRV EXCEPT !.Version = @ + 1]
    IN [VRV |-> vrv, Outgoing |-> [VRV |-> vrv, Sent |-> FALSE]]

MarkSent(view) == [view EXCEPT !.Outgoing.Sent = TRUE]

HasPB(vrv, hash) == \E i \in 1..Len(vrv.ProposedBlocks) : vrv.ProposedBlocks[i].Block.Hash = hash

(***************************************************************************)
(* kState and the world around it.                                         *)
(*                                                                         *)
(* A handler state s is a record with the fields of kState                 *)
(*   Committing, Voting, NextRound : View                                  *)
(*   CommittingBlock               : Block                                 *)
(*   InFlightFetchPBs              : block hash -> the fetch it cancels    *)
(*   NilVotedRound                 : <<>> or <<vrv>> (a nil pointer or not)*)
(*   StateMachineView              : [H, R, Forced]                        *)
(* and of what its calls reach outside the kernel                          *)
(*   fetchRequests : the buffered pbf.FetchRequests channel                *)
(*   calls         : the calls made on the stores and on the cancel funcs  *)
(*                   of fetch contexts, in order                           *)
(*   commits       : the heights of the commit shifts, in order            *)
(*   ctxDone       : the kernel's context is cancelled (read only)         *)
(*   panicked      : a panic was raised (the process is gone)              *)
(*   resp          : what was sent on the request's Response channel       *)
(*   status, id    : what FindView answered for the request                *)
(*   shift         : the view shift the handler performed                  *)
(***************************************************************************)
ViewFound == "Found"
ViewBeforeCommitting == "BeforeCommitting"
ViewWrongCommit == "WrongCommit"
ViewOrphaned == "Orphaned"
ViewFutureNotYetTracked == "FutureNotYetTracked"

ViewIDNone == "None"
ViewIDVoting == "Voting"
ViewIDCommitting == "Committing"
ViewIDNextRound == "NextRound"

AddVoteAccepted == "Accepted"
AddVoteConflict == "Conflict"
AddVoteOutOfDate == "OutOfDate"
NoResponse == "none"

\* kState.FindView: the view tracking (h, r), or why there is none.
FindView(s, h, r) ==
    IF h = s.Voting.VRV.Height /\ r = s.Voting.VRV.Round
        THEN [id |-> ViewIDVoting, status |-> ViewFound]
    ELSE IF h = s.NextRound.VRV.Height /\ r = s.NextRound.VRV.Round
        THEN [id |-> ViewIDNextRound, status |-> ViewFound]
    ELSE IF h = s.Committing.VRV.Height /\ r = s.Committing.VRV.Round
        THEN [id |-> ViewIDCommitting, status |-> ViewFound]
    ELSE IF h < s.Committing.VRV.Height
        THEN [id |-> ViewIDNone, status |-> ViewBeforeCommitting]
    ELSE IF h = s.Committing.VRV.Height
        THEN [id |-> ViewIDNone, status |-> ViewWrongCommit]
    ELSE IF h = s.Voting.VRV.Height /\ r < s.Voting.VRV.Round
        THEN [id |-> ViewIDNone, status |-> ViewOrphaned]
    ELSE [id |-> ViewIDNone, status |-> ViewFutureNotYetTracked]

ViewOf(s, id) == CASE id = ViewIDVoting -> s.Voting
                   [] id = ViewIDNextRound -> s.NextRound
                   [] id = ViewIDCommitting -> s.Committing

SetView(s, id, view) == CASE id = ViewIDVoting -> [s EXCEPT !.Voting = view]
                          [] id = ViewIDNextRound -> [s EXCEPT !.NextRound = view]
                          [] id = ViewIDCommitting -> [s EXCEPT !.Committing = view]

Panic(s) == [s EXCEPT !.panicked = TRUE]

\* The calls a handler makes on the RoundStore and the BlockStore, and the
\* cancel funcs of fetch contexts it calls.
OverwritePrevoteProofs(s, h, r, proofs) ==
    [s EXCEPT !.calls = Append(@, [call |-> "OverwritePrevoteProofs",
                                   H |-> h, R |-> r, Proofs |-> proofs])]

OverwritePrecommitProofs(s, h, r, proofs) ==
    [s EXCEPT !.calls = Append(@, [call |-> "OverwritePrecommitProofs",
                                   H |-> h, R |-> r, Proofs |-> proofs])]

SaveProposedBlock(s, pb) ==
    [s EXCEPT !.calls = Append(@, [call |-> "SaveProposedBlock", PB |-> pb])]

SaveBlock(s, cb) ==
    [s EXCEPT !.calls = Append(@, [call |-> "SaveBlock", CB |-> cb])]

CancelFetch(s, fr) ==
    [s EXCEPT !.calls = Append(@, [call |-> "cancel", Fetch |-> fr])]

(***************************************************************************)
(* Fetch orchestration.                                                    *)
(***************************************************************************)
FetchRequest(h, hash) == [Height |-> h, BlockHash |-> hash]

\* The loop of checkMissingPBs over the hashes that crossed the minority
\* threshold, in any order (missingPBs was filled by ranging over a map).
\* Each iteration selects between ctx.Done (return), a send on the
\* FetchRequests channel when it has room, and the default (log).
RECURSIVE SendFetches(_, _)
SendFetches(s, Q) ==
    IF Q = {} THEN {s}
    ELSE UNION {
        LET full == Len(s.fetchRequests) >= FetchCap
            fr == FetchRequest(s.Voting.VRV.Height, h)
            sent == [s EXCEPT !.fetchRequests = Append(@, fr),
                              !.InFlightFetchPBs = MapSet(@, h, fr)]
        IN (IF s.ctxDone THEN {s} ELSE {})
           \cup (IF ~full THEN SendFetches(sent, Q \ {h}) ELSE {})
           \cup (IF full /\ ~s.ctxDone THEN SendFetches(s, Q \ {h}) ELSE {})
        : h \in Q }

\* if dist.BlockVotePower[missingHash] >= min
FetchWorthyNever(pow, min) == pow > pow

FetchWorthy(pow, min) == pow >= min

\* if _, ok := s.InFlightFetchPBs[missingPB]; !ok { continue }; missingPBs[i] = ""
NotInFlightUnchecked(missingPBs, inFlight) == missingPBs

NotInFlight(missingPBs, inFlight) == missingPBs \ DOMAIN inFlight

\* checkMissingPBs: request every block that has a proof in proofs with at
\* least minority power (measured with the Voting validators), that is not
\* among Voting's proposed blocks and has no fetch in flight.
checkMissingPBs(s, proofs) ==
    IF DOMAIN proofs = {} THEN {Panic(s)}    \* make([]string, 0, len(proofs)-1)
    ELSE
    LET missingPBs == {h \in DOMAIN proofs : h # NilHash /\ ~HasPB(s.Voting.VRV, h)}
        notInFlight == NotInFlight(missingPBs, s.InFlightFetchPBs)
        dist == newVoteDistribution(proofs, s.Voting.VRV.Validators)
        min == ByzantineMinority(dist.AvailableVotePower)
    IN IF missingPBs = {} \/ notInFlight = {} THEN {s}
       ELSE SendFetches(s, {h \in notInFlight : FetchWorthy(dist.BlockVotePower[h], min)})

(***************************************************************************)
(* View shifts.                                                            *)
(***************************************************************************)
\* StateMachineView.ForceSend: the value goes out on the next send.
ForceSend(smv, vrv) == [smv EXCEPT !.Forced = <<vrv>>]

\* s.NextRound.VRV.Round = s.Voting.VRV.Round + 1, read after the swap.
NextRoundAfterSame(votingRound) == votingRound

NextRoundAfter(votingRound) == votingRound + 1

\* The VersionedRoundView swapped into Voting: s.Voting.VRV.Version = 0,
\* everything else as NextRound had it.
SwappedIntoVotingCleared(vrv) ==
    [vrv EXCEPT !.Version = 0,
                !.PrevoteBlockVersions = ZeroVersions,
                !.PrecommitBlockVersions = ZeroVersions]

SwappedIntoVoting(vrv) == [vrv EXCEPT !.Version = 0]

\* nrrv.PrevoteProofs[""] = nilPrevote (and the same for the precommits)
SetNilProofSkipped(proofs) == proofs

SetNilProof(proofs) == MapSet(proofs, NilHash, {})

\* advanceVotingRound: NextRound becomes Voting, and a cleared NextRound
\* follows it.
advanceVotingRound(s) ==
    LET smv == IF s.StateMachineView.H = s.Voting.VRV.Height
                  /\ s.StateMachineView.R = s.Voting.VRV.Round
               THEN ForceSend(s.StateMachineView, s.Voting.VRV)
               ELSE s.StateMachineView
        \* s.Voting.VRV, s.NextRound.VRV = s.NextRound.VRV, s.Voting.VRV
        voting == UpdateOutgoing([s.Voting EXCEPT !.VRV = SwappedIntoVoting(s.NextRound.VRV)])
        nr0 == VRVResetForSameHeight(s.Voting.VRV)
        nrrv == [nr0 EXCEPT !.Round = NextRoundAfter(voting.VRV.Round),
                            !.PrevoteProofs = SetNilProof(@),
                            !.PrecommitProofs = SetNilProof(@)]
        nextRound == UpdateOutgoing([s.NextRound EXCEPT !.VRV = nrrv])
    IN [s EXCEPT !.StateMachineView = smv,
                 !.NilVotedRound = <<s.Voting.VRV>>,
                 !.Voting = voting,
                 !.NextRound = nextRound,
                 !.shift = "advance"]

\* The first proposed block of the list with the given hash.
FirstPBWithHash(pbs, hash) ==
    LET i == CHOOSE i \in 1..Len(pbs) :
                 /\ pbs[i].Block.Hash = hash
                 /\ \A j \in 1..(i - 1) : pbs[j].Block.Hash # hash
    IN pbs[i]

\* newHeight := s.Committing.VRV.Height + 1, read after Voting moved to Committing.
NewVotingHeightSame(committing) == committing.VRV.Height

NewVotingHeight(committing) == committing.VRV.Height + 1

\* votingVals := slices.Clone(s.CommittingBlock.NextValidators)
NewVotingValidatorsCurrent(block) == block.Validators

NewVotingValidators(block) == block.NextValidators

\* The tmconsensus.CommittedBlock given to SaveBlock: the block that was
\* committing until now, with the commit proof the new committing block carries.
CommittedBlockOwnProof(committedBlock, committingBlock) ==
    [Block |-> committingBlock, Proof |-> committingBlock.PrevCommitProof]

CommittedBlock(committedBlock, committingBlock) ==
    [Block |-> committedBlock, Proof |-> committingBlock.PrevCommitProof]

\* The tail of checkVotingPrecommitViewShift: the voting view moves to
\* committing, and fresh Voting and NextRound views start the next height.
commitShift(s, committingHash) ==
    LET committedBlock == s.CommittingBlock
        committing == UpdateOutgoing(s.Voting)
        committingBlock == FirstPBWithHash(committing.VRV.ProposedBlocks, committingHash).Block
        newHeight == NewVotingHeight(committing)
        votingVals == NewVotingValidators(committingBlock)
        voting == UpdateOutgoing(
            [VRV |-> [ZeroVRV(newHeight, 0) EXCEPT
                        !.Validators = votingVals,
                        !.VoteSummary = SetAvailablePower(NewVoteSummary, votingVals),
                        !.PrevoteVersion = 1,
                        !.PrecommitVersion = 1,
                        !.PrevoteProofs = NilProofs,
                        !.PrecommitProofs = NilProofs],
             Outgoing |-> [VRV |-> ZeroVRV(0, 0), Sent |-> TRUE]])
        nextRound == UpdateOutgoing(
            [s.NextRound EXCEPT !.VRV =
                [VRVReset(s.NextRound.VRV) EXCEPT
                    !.Height = newHeight,
                    !.Round = 1,
                    !.Validators = votingVals,
                    !.PrevoteVersion = 1,
                    !.PrecommitVersion = 1,
                    !.VoteSummary.AvailablePower = voting.VRV.VoteSummary.AvailablePower,
                    !.PrevoteProofs = NilProofs,
                    !.PrecommitProofs = NilProofs]])
        shifted == [s EXCEPT !.Committing = committing,
                             !.CommittingBlock = committingBlock,
                             !.Voting = voting,
                             !.NextRound = nextRound,
                             !.commits = Append(@, committing.VRV.Height),
                             !.shift = "commit"]
        cb == CommittedBlock(committedBlock, committingBlock)
    IN IF voting.VRV.Height <= InitialHeight + 1
       THEN shifted
       ELSE SaveBlock(shifted, cb)

\* if vs.TotalPrecommitPower == vs.AvailablePower
AllPrecommitsInNever(vs) == FALSE

AllPrecommitsIn(vs) == vs.TotalPrecommitPower = vs.AvailablePower

\* checkVotingPrecommitViewShift: has the voting round reached precommit
\* consensus, on nil (next round) or on a block (commit)?
checkVotingPrecommitViewShift(s) ==
    LET vrv == s.Voting.VRV
        vs == vrv.VoteSummary
        maj == ByzantineMajority(vs.AvailablePower)
        committingHash == vs.MostVotedPrecommitHash
        highestPow == Get0(vs.PrecommitBlockPower, committingHash)
    IN IF highestPow < maj
       THEN IF AllPrecommitsIn(vs)
            THEN advanceVotingRound(s)
            ELSE s
       ELSE IF committingHash = NilHash
       THEN advanceVotingRound(s)
       ELSE IF ~HasPB(vrv, committingHash)
       THEN [s EXCEPT !.shift = "stuck"]
       ELSE commitShift(s, committingHash)

\* if vs.TotalPrecommitPower < min (and the same for TotalPrevotePower)
BelowMinorityAlways(total, min) == TRUE

BelowMinority(total, min) == total < min

\* checkNextRoundPrecommitViewShift: a minority precommitting in the next
\* round moves voting there.
checkNextRoundPrecommitViewShift(s) ==
    LET vs == s.NextRound.VRV.VoteSummary
        min == ByzantineMinority(vs.AvailablePower)
        maj == ByzantineMajority(vs.AvailablePower)
        maxPow == Get0(vs.PrecommitBlockPower, vs.MostVotedPrecommitHash)
        t == advanceVotingRound(s)
    IN IF BelowMinority(vs.TotalPrecommitPower, min) THEN {s}
       ELSE IF maxPow >= maj THEN {Panic(t)}   \* "TODO: handle a majority precommit for NextRound"
       ELSE IF maxPow >= min THEN UNION {checkMissingPBs(a, a.Voting.VRV.PrecommitProofs) : a \in {t}}
       ELSE {t}

\* checkPrevoteViewShift (always called with ViewIDNextRound): a minority
\* prevoting in the next round moves voting there.
checkPrevoteViewShift(s) ==
    LET vs == s.NextRound.VRV.VoteSummary
        min == ByzantineMinority(vs.AvailablePower)
        t == advanceVotingRound(s)
    IN IF BelowMinority(vs.TotalPrevotePower, min) THEN {s}
       ELSE IF Get0(vs.PrevoteBlockPower, vs.MostVotedPrevoteHash) >= min
       THEN UNION {checkMissingPBs(a, a.Voting.VRV.PrevoteProofs) : a \in {t}}
       ELSE {t}

(***************************************************************************)
(* Vote ingestion.                                                         *)
(***************************************************************************)
\* The hashes of the request whose PrevVersion is the view's current one.
FreshHashesUnchecked(updates, versions) == DOMAIN updates

FreshHashes(updates, versions) ==
    {h \in DOMAIN updates : updates[h].PrevVersion = versions[h]}

\* The proof map after the fresh updates were installed.
InstallProofs(proofs, updates, fresh) ==
    [h \in (DOMAIN proofs) \cup fresh |->
        IF h \in fresh THEN updates[h].Proof ELSE proofs[h]]

\* The per-hash versions after the fresh updates were installed.
BumpVersionsNot(versions, fresh) == versions

BumpVersions(versions, fresh) ==
    [h \in DOMAIN versions |-> IF h \in fresh THEN versions[h] + 1 ELSE versions[h]]

\* if allAccepted { res = AddVoteAccepted } else { res = AddVoteConflict }
voteResultAnyAdded(allAccepted, anyAdded) ==
    IF anyAdded THEN AddVoteAccepted ELSE AddVoteConflict

voteResult(allAccepted, anyAdded) ==
    IF allAccepted THEN AddVoteAccepted ELSE AddVoteConflict

\* What a vote handler does when FindView found no view.
voteNotFoundOrphanedMissed(s, f) ==
    LET s1 == [s EXCEPT !.status = f.status, !.id = f.id]
    IN IF f.status \in {ViewBeforeCommitting, ViewWrongCommit}
       THEN [s1 EXCEPT !.resp = AddVoteOutOfDate]
       ELSE Panic(s1)

voteNotFound(s, f) ==
    LET s1 == [s EXCEPT !.status = f.status, !.id = f.id]
    IN IF f.status \in {ViewBeforeCommitting, ViewOrphaned, ViewWrongCommit}
       THEN [s1 EXCEPT !.resp = AddVoteOutOfDate]
       ELSE Panic(s1)     \* "TODO: handle unexpected view status"

addPrevote(s, req) ==
    LET f == FindView(s, req.H, req.R)
    IN IF f.status # ViewFound THEN {voteNotFound(s, f)}
       ELSE
       LET view == ViewOf(s, f.id)
           vrv == view.VRV
           fresh == FreshHashes(req.Updates, vrv.PrevoteBlockVersions)
           allAccepted == fresh = DOMAIN req.Updates
           anyAdded == fresh # {}
           proofs == InstallProofs(vrv.PrevoteProofs, req.Updates, fresh)
           vrv1 == [vrv EXCEPT !.PrevoteProofs = proofs,
                               !.PrevoteBlockVersions = BumpVersions(@, fresh)]
           view1 == IF anyAdded
                    THEN UpdateOutgoing([view EXCEPT !.VRV =
                            [vrv1 EXCEPT !.VoteSummary = SetPrevotePowers(@, vrv.Validators, proofs)]])
                    ELSE view
           s1 == SetView(s, f.id, view1)
           s2 == IF anyAdded THEN OverwritePrevoteProofs(s1, req.H, req.R, proofs) ELSE s1
           res == voteResult(allAccepted, anyAdded)
           s3 == [s2 EXCEPT !.status = f.status, !.id = f.id,
                            !.resp = IF req.HasResponse THEN res ELSE NoResponse]
       IN UNION { IF t.panicked \/ res # AddVoteAccepted \/ f.id # ViewIDNextRound
                  THEN {t}
                  ELSE checkPrevoteViewShift(t)
                  : t \in UNION {checkMissingPBs(a, p) : a \in {s3}, p \in {proofs}} }

addPrecommit(s, req) ==
    LET f == FindView(s, req.H, req.R)
    IN IF f.status # ViewFound THEN {voteNotFound(s, f)}
       ELSE
       LET view == ViewOf(s, f.id)
           vrv == view.VRV
           fresh == FreshHashes(req.Updates, vrv.PrecommitBlockVersions)
           allAccepted == fresh = DOMAIN req.Updates
           anyAdded == fresh # {}
           proofs == InstallProofs(vrv.PrecommitProofs, req.Updates, fresh)
           vrv1 == [vrv EXCEPT !.PrecommitProofs = proofs,
                               !.PrecommitBlockVersions = BumpVersions(@, fresh)]
           view1 == IF anyAdded
                    THEN UpdateOutgoing([view EXCEPT !.VRV =
                            [vrv1 EXCEPT !.VoteSummary = SetPrecommitPowers(@, vrv.Validators, proofs)]])
                    ELSE view
           s1 == SetView(s, f.id, view1)
           s2 == IF anyAdded THEN OverwritePrecommitProofs(s1, req.H, req.R, proofs) ELSE s1
           res == voteResult(allAccepted, anyAdded)
           s3 == [s2 EXCEPT !.status = f.status, !.id = f.id,
                            !.resp = IF req.HasResponse THEN res ELSE NoResponse]
       IN UNION { IF t.panicked \/ res # AddVoteAccepted THEN {t}
                  ELSE IF f.id = ViewIDVoting THEN {checkVotingPrecommitViewShift(t)}
                  ELSE IF f.id = ViewIDNextRound THEN checkNextRoundPrecommitViewShift(t)
                  ELSE {t}
                  : t \in UNION {checkMissingPBs(a, p) : a \in {s3}, p \in {proofs}} }

(***************************************************************************)
(* Proposed block ingestion.                                               *)
(***************************************************************************)
\* CommonMessageSignatureProof.MergeSparse: the signatures of keys the
\* proof knows are added.
MergeSparse(target, sigs, keys) == target \cup (sigs \cap keys)

\* The backfill of addPB: the block's PrevCommitProof is merged into the
\* committing view's precommit proofs.
backfill(s, pb) ==
    LET commitProofs == pb.Block.PrevCommitProof.Proofs
        bv == s.Committing.VRV
        merged == [h \in DOMAIN bv.PrecommitProofs |->
                      IF h \in DOMAIN commitProofs
                      THEN MergeSparse(bv.PrecommitProofs[h], commitProofs[h], bv.Validators)
                      ELSE bv.PrecommitProofs[h]]
        mergedAny == merged # bv.PrecommitProofs
        s1 == [s EXCEPT !.Committing.VRV.PrecommitProofs = merged]
    IN IF \E h \in DOMAIN commitProofs : h \notin DOMAIN bv.PrecommitProofs
       THEN Panic(s)      \* "TODO: backfill unknown block precommit"
       ELSE IF mergedAny
       THEN [OverwritePrecommitProofs(s1, pb.Block.Height - 1, pb.Block.PrevCommitProof.Round, merged)
                EXCEPT !.Committing = UpdateOutgoing(s1.Committing)]
       ELSE s1

\* if viewID == ViewIDVoting { if _, ok := s.Voting.VRV.PrecommitProofs[hash]; ok {
RecheckOnPBNever(viewID, hash, proofs) == FALSE

RecheckOnPB(viewID, hash, proofs) == viewID = ViewIDVoting /\ hash \in DOMAIN proofs

\* if bytes.Equal(have.Signature, pb.Signature) for one of the view's blocks
IsDuplicateNever(pbs, pb) == FALSE

IsDuplicate(pbs, pb) == \E i \in 1..Len(pbs) : pbs[i].Signature = pb.Signature

\* delete(s.InFlightFetchPBs, string(pb.Block.Hash))
ForgetFetchKept(inFlight, hash) == inFlight

ForgetFetch(inFlight, hash) == [h \in (DOMAIN inFlight) \ {hash} |-> inFlight[h]]

addPB(s, pb) ==
    LET hash == pb.Block.Hash
        s0 == IF hash \in DOMAIN s.InFlightFetchPBs
              THEN [CancelFetch(s, s.InFlightFetchPBs[hash]) EXCEPT
                        !.InFlightFetchPBs = ForgetFetch(@, hash)]
              ELSE s
        f == FindView(s0, pb.Block.Height, pb.Round)
        s1 == [s0 EXCEPT !.status = f.status, !.id = f.id]
    IN IF f.status # ViewFound THEN s1
       ELSE
       LET view == ViewOf(s1, f.id)
           pbs == view.VRV.ProposedBlocks
           view1 == UpdateOutgoing([view EXCEPT !.VRV.ProposedBlocks = Append(@, pb)])
           s2 == [SaveProposedBlock(SetView(s1, f.id, view1), pb) EXCEPT !.added = TRUE]
           s3 == backfill(s2, pb)
       IN IF IsDuplicate(pbs, pb) THEN s1
          ELSE IF f.id # ViewIDVoting /\ f.id # ViewIDNextRound THEN s2
          ELSE IF s3.panicked THEN s3
          ELSE IF RecheckOnPB(f.id, hash, s3.Voting.VRV.PrecommitProofs)
          THEN checkVotingPrecommitViewShift(s3)
          ELSE s3

(***************************************************************************)
(* Snapshot, view lookup, PB check and the state machine's round update.   *)
(***************************************************************************)
RVValidators == "Validators"
RVProposedBlocks == "ProposedBlocks"
RVPrevotes == "Prevotes"
RVPrecommits == "Precommits"
RVVoteSummary == "VoteSummary"
RVAll == {RVValidators, RVProposedBlocks, RVPrevotes, RVPrecommits, RVVoteSummary}

\* copySnapshotView: height, round and overall version always, the rest as
\* the field flags ask; proofs are cloned one by one into the caller's maps.
copySnapshotView(src, fields) ==
    [ZeroVRV(src.Height, src.Round) EXCEPT
        !.Version = src.Version,
        !.Validators = IF RVValidators \in fields THEN src.Validators ELSE {},
        !.ProposedBlocks = IF RVProposedBlocks \in fields THEN src.ProposedBlocks ELSE <<>>,
        !.PrevoteProofs = IF RVPrevotes \in fields THEN src.PrevoteProofs ELSE EmptyMap,
        !.PrevoteBlockVersions =
            IF RVPrevotes \in fields THEN src.PrevoteBlockVersions ELSE ZeroVersions,
        !.PrecommitProofs = IF RVPrecommits \in fields THEN src.PrecommitProofs ELSE EmptyMap,
        !.PrecommitBlockVersions =
            IF RVPrecommits \in fields THEN src.PrecommitBlockVersions ELSE ZeroVersions,
        !.VoteSummary = IF RVVoteSummary \in fields THEN src.VoteSummary ELSE NewVoteSummary]

\* A VersionedRoundView in the hands of a party outside the kernel.  Live
\* says whether its maps are the very maps of the kernel's view (a struct
\* copy) or maps of its own (a clone).
HandedOut(vrv, live) == [VRV |-> vrv, Live |-> live]

\* sendSnapshotResponse
sendSnapshotResponse(s, req) ==
    [s EXCEPT !.resp =
        [Voting |-> IF req.Voting
                    THEN <<HandedOut(copySnapshotView(s.Voting.VRV, req.Fields), FALSE)>>
                    ELSE <<>>,
         Committing |-> IF req.Committing
                        THEN <<HandedOut(copySnapshotView(s.Committing.VRV, req.Fields), FALSE)>>
                        ELSE <<>>]]

\* sendViewLookupResponse
sendViewLookupResponse(s, req) ==
    LET f == FindView(s, req.H, req.R)
    IN IF req.Reason = "" THEN Panic(s)
       ELSE [s EXCEPT !.status = f.status, !.id = f.id,
                      !.resp = [ID |-> f.id, Status |-> f.status,
                                VRV |-> IF f.status = ViewFound
                                        THEN <<HandedOut(copySnapshotView(ViewOf(s, f.id).VRV,
                                                                          req.Fields), FALSE)>>
                                        ELSE <<>>]]

PBCheckRoundTooOld == "RoundTooOld"
PBCheckAlreadyHaveSignature == "AlreadyHaveSignature"
PBCheckSignerUnrecognized == "SignerUnrecognized"
PBCheckAcceptable == "Acceptable"
PBCheckNextHeight == "NextHeight"
PBCheckRoundTooFarInFuture == "RoundTooFarInFuture"

\* A public key no validator has.
UnknownPubKey == 0

PBCheckResponse(status) == [Status |-> status, ProposerPubKey |-> <<>>, VotingRoundView |-> <<>>]

\* setPBCheckStatus: the view has the signature, or the proposer is one of
\* the view's validators, or it is not.
setPBCheckStatus(req, vrv) ==
    IF IsDuplicate(vrv.ProposedBlocks, req.PB)
    THEN PBCheckResponse(PBCheckAlreadyHaveSignature)
    ELSE IF req.ProposerPubKey \in vrv.Validators
    THEN [PBCheckResponse(PBCheckAcceptable) EXCEPT !.ProposerPubKey = <<req.ProposerPubKey>>]
    ELSE PBCheckResponse(PBCheckSignerUnrecognized)

\* } else { panic("TODO: handle proposed block with round beyond voting round")
BeyondTrackedRoundsTooFar(s) == [s EXCEPT !.resp = PBCheckResponse(PBCheckRoundTooFarInFuture)]

BeyondTrackedRounds(s) == Panic(s)

\* sendPBCheckResponse
sendPBCheckResponse(s, req) ==
    LET pbHeight == req.PB.Block.Height
        pbRound == req.PB.Round
        votingHeight == s.Voting.VRV.Height
        votingRound == s.Voting.VRV.Round
        committingHeight == s.Committing.VRV.Height
        committingRound == s.Committing.VRV.Round
        respond(r) == [s EXCEPT !.resp = r]
    IN IF pbHeight < committingHeight THEN respond(PBCheckResponse(PBCheckRoundTooOld))
       ELSE IF pbHeight = committingHeight
       THEN IF pbRound < committingRound THEN respond(PBCheckResponse(PBCheckRoundTooOld))
            ELSE IF pbRound = committingRound
            THEN respond(setPBCheckStatus(req, s.Committing.VRV))
            ELSE BeyondTrackedRounds(s)
       ELSE IF pbHeight = votingHeight
       THEN IF pbRound < votingRound THEN respond(PBCheckResponse(PBCheckRoundTooOld))
            ELSE IF pbRound = votingRound THEN respond(setPBCheckStatus(req, s.Voting.VRV))
            ELSE IF pbRound = votingRound + 1
            THEN respond(setPBCheckStatus(req, s.NextRound.VRV))
            ELSE BeyondTrackedRounds(s)
       ELSE IF pbHeight = votingHeight + 1
       THEN respond([PBCheckResponse(PBCheckNextHeight) EXCEPT
                        !.VotingRoundView = <<HandedOut(s.Voting.VRV, FALSE)>>])
       ELSE respond(PBCheckResponse(PBCheckRoundTooFarInFuture))

\* StateMachineView.Reset and MarkFirstSentVersion.
StateMachineViewReset(smv, as) == [smv EXCEPT !.H = as.H, !.R = as.R, !.Forced = <<>>]

MarkFirstSentVersion(smv, v) == [smv EXCEPT !.FirstSentVersion = v]

\* BlockStore.LoadBlock: the committed block of the height, when there is one.
LoadBlock(h) == IF h >= InitialHeight THEN <<[Height |-> h]>> ELSE <<>>

\* su := tmeil.StateUpdate{VRV: view.VRV}
StateUpdateVRVCloned(vrv) == HandedOut(vrv, FALSE)

StateUpdateVRV(vrv) == HandedOut(vrv, TRUE)

\* handleStateMachineRoundUpdate: the state machine says which round it is
\* on and is sent the view of that round, or the committed block when the
\* round is before the committing view.
handleStateMachineRoundUpdate(s, as) ==
    LET s1 == [s EXCEPT !.StateMachineView = StateMachineViewReset(@, as)]
        f == FindView(s1, as.H, as.R)
        s2 == [s1 EXCEPT !.status = f.status, !.id = f.id]
        cb == LoadBlock(as.H)
    IN IF f.status # ViewFound
       THEN IF f.status = ViewBeforeCommitting /\ cb # <<>>
            THEN [s2 EXCEPT !.resp = [CB |-> cb, VRV |-> <<>>]]
            ELSE Panic(s2)
       ELSE IF f.id \notin {ViewIDVoting, ViewIDCommitting} THEN Panic(s2)
       ELSE LET su == StateUpdateVRV(ViewOf(s2, f.id).VRV)
            IN [s2 EXCEPT !.resp = [CB |-> <<>>, VRV |-> <<su>>],
                          !.StateMachineView = MarkFirstSentVersion(@, su.VRV.Version)]

(***************************************************************************)
(* Construction: NewKernel loads the views from the stores.                *)
(***************************************************************************)
\* NetworkHeightRound as the mirror store returns it.
NetworkHeightRound(vh, vr, ch, cr) ==
    [VotingHeight |-> vh, VotingRound |-> vr, CommittingHeight |-> ch, CommittingRound |-> cr]

\* What RoundStore.LoadRoundState returns for a round it does not know.
UnknownRound == [PBs |-> <<>>, Prevotes |-> EmptyMap, Precommits |-> EmptyMap]

\* A round in which block "a" was proposed and precommitted by everyone.
DecidedRound(h) ==
    [PBs |-> <<ProposedBlock(h, 0, "a",
                             CommitProof(0, IF h > InitialHeight THEN [x \in {"a"} |-> Vals]
                                            ELSE EmptyMap),
                             Vals)>>,
     Prevotes |-> EmptyMap,
     Precommits |-> [x \in {"a"} |-> Vals]]

\* The stores a kernel is constructed on: uninitialized, or left behind by
\* a mirror that was voting on height 2 or 3 with the height before it
\* committing.
Stores ==
    {[Uninitialized |-> TRUE, NHR |-> NetworkHeightRound(0, 0, 0, 0),
      Rounds |-> [k \in {} |-> UnknownRound]]}
    \cup {[Uninitialized |-> FALSE,
           NHR |-> NetworkHeightRound(ch + 1, 0, ch, 0),
           Rounds |-> [k \in {<<ch, 0>>} |-> DecidedRound(ch)]]
            : ch \in {InitialHeight, InitialHeight + 1}}

LoadRoundState(store, h, r) ==
    IF <<h, r>> \in DOMAIN store.Rounds THEN store.Rounds[<<h, r>>] ELSE UnknownRound

ZeroView(h, r) == [VRV |-> ZeroVRV(h, r), Outgoing |-> [VRV |-> ZeroVRV(0, 0), Sent |-> TRUE]]

\* loadInitialView: the round as the RoundStore has it, with the nil proofs
\* added and only the available power in the vote summary.
loadInitialView(store, h, r, vals) ==
    LET rs == LoadRoundState(store, h, r)
        withNil(proofs) == IF NilHash \in DOMAIN proofs THEN proofs
                           ELSE MapSet(proofs, NilHash, {})
    IN [ZeroVRV(h, r) EXCEPT
            !.Validators = vals,
            !.ProposedBlocks = rs.PBs,
            !.PrevoteProofs = withNil(rs.Prevotes),
            !.PrecommitProofs = withNil(rs.Precommits),
            !.VoteSummary = SetAvailablePower(NewVoteSummary, vals)]

\* What loadInitialCommittingView and loadInitialVotingView do with the
\* loaded round: both vote versions start at 1.
LoadedView(vrv) ==
    UpdateOutgoing([ZeroView(0, 0) EXCEPT
                       !.VRV = [vrv EXCEPT !.PrevoteVersion = 1, !.PrecommitVersion = 1]])

loadInitialCommittingView(store, h, r) == LoadedView(loadInitialView(store, h, r, Vals))

\* The block loadInitialCommittingView finds: the proposed block of the
\* committing round whose hash has the most precommit power.
LoadedCommittingBlock(vrv) ==
    LET dist == newVoteDistribution(vrv.PrecommitProofs, vrv.Validators)
    IN FirstPBWithHash(vrv.ProposedBlocks, MostVoted(dist.BlockVotePower)).Block

\* What the mirror store holds when NewKernel returns: what it held, or the
\* initial height NewKernel wrote into an uninitialized store.
StoredNHR(store) ==
    IF store.Uninitialized THEN NetworkHeightRound(InitialHeight, 0, 0, 0) ELSE store.NHR

\* The kState NewKernel hands to mainLoop.
NewKernel(store) ==
    LET nhr == IF store.Uninitialized THEN NetworkHeightRound(InitialHeight, 0, 0, 0)
               ELSE store.NHR
        hasCommitting == nhr.CommittingHeight >= InitialHeight
        committing == IF hasCommitting
                      THEN loadInitialCommittingView(store, nhr.CommittingHeight, nhr.CommittingRound)
                      ELSE ZeroView(nhr.CommittingHeight, nhr.CommittingRound)
        committingBlock == IF hasCommitting THEN LoadedCommittingBlock(committing.VRV)
                           ELSE ZeroBlock
        h == nhr.VotingHeight
        r == nhr.VotingRound
        vals == IF h = InitialHeight \/ h = InitialHeight + 1 THEN Vals
                ELSE committingBlock.Validators
    IN [Committing |-> committing,
        CommittingBlock |-> committingBlock,
        Voting |-> LoadedView(loadInitialView(store, h, r, vals)),
        NextRound |-> LoadedView(loadInitialView(store, h, r + 1, vals)),
        InFlightFetchPBs |-> EmptyMap,
        NilVotedRound |-> <<>>,
        StateMachineView |-> [H |-> 0, R |-> 0, Forced |-> <<>>, FirstSentVersion |-> 0]]

(***************************************************************************)
(* The state of the program.                                               *)
(***************************************************************************)
VARIABLES
    Committing, Voting, NextRound,  \* kState: the three views
    CommittingBlock,                \* kState.CommittingBlock
    InFlightFetchPBs,               \* kState.InFlightFetchPBs
    NilVotedRound,                  \* kState.NilVotedRound
    StateMachineView,               \* kState.StateMachineView
    fetchRequests,                  \* pbf.FetchRequests, buffered
    commits,                        \* heights of the commit shifts, in order
    ctxDone,                        \* the kernel's context is cancelled
    run,                            \* "running" or "panicked"
    changes,                        \* how many requests changed the kState
    last,                           \* the request last handled and its outcome
    sent,                           \* (height, round) -> highest Version sent out so far
    pending,                        \* <<>> or the request a sender waits to hand over
    stateUpdate,                    \* <<>> or the StateUpdate last sent to the state machine
    mirrorStoreNHR                  \* the NetworkHeightRound the MirrorStore holds

vars == <<Committing, Voting, NextRound, CommittingBlock, InFlightFetchPBs,
          NilVotedRound, StateMachineView, fetchRequests, commits, ctxDone,
          run, changes, last, sent, pending, stateUpdate, mirrorStoreNHR>>

kStateVars == <<Committing, Voting, NextRound, CommittingBlock, InFlightFetchPBs,
                NilVotedRound, StateMachineView>>

NoEvent == [op |-> "none"]

\* The handler state at the start of a select case.
KS ==
    [Committing |-> Committing, Voting |-> Voting, NextRound |-> NextRound,
     CommittingBlock |-> CommittingBlock, InFlightFetchPBs |-> InFlightFetchPBs,
     NilVotedRound |-> NilVotedRound, StateMachineView |-> StateMachineView,
     fetchRequests |-> fetchRequests, calls |-> <<>>, commits |-> commits,
     ctxDone |-> ctxDone, panicked |-> FALSE,
     status |-> "none", id |-> ViewIDNone, resp |-> NoResponse,
     shift |-> "none", added |-> FALSE]

\* The kState and the fetch channel as the handler found them.
Here ==
    [Committing |-> Committing, Voting |-> Voting, NextRound |-> NextRound,
     CommittingBlock |-> CommittingBlock, InFlightFetchPBs |-> InFlightFetchPBs,
     NilVotedRound |-> NilVotedRound, StateMachineView |-> StateMachineView,
     fetchRequests |-> fetchRequests]

\* The handler ended in t: its effects become the program's state, and the
\* request, the state it met and what the handler did are kept in last
\* until the sender has its reply.
Apply(req, t) ==
    /\ Committing' = t.Committing
    /\ Voting' = t.Voting
    /\ NextRound' = t.NextRound
    /\ CommittingBlock' = t.CommittingBlock
    /\ InFlightFetchPBs' = t.InFlightFetchPBs
    /\ NilVotedRound' = t.NilVotedRound
    /\ StateMachineView' = t.StateMachineView
    /\ fetchRequests' = t.fetchRequests
    /\ commits' = t.commits
    /\ run' = IF t.panicked THEN "panicked" ELSE run
    /\ changes' = IF <<t.Committing, t.Voting, t.NextRound, t.CommittingBlock,
                       t.InFlightFetchPBs, t.NilVotedRound, t.StateMachineView>> = kStateVars
                  THEN changes ELSE changes + 1
    /\ last' = [op |-> req.op, req |-> req, pre |-> Here,
                status |-> t.status, id |-> t.id, resp |-> t.resp,
                shift |-> t.shift, added |-> t.added, calls |-> t.calls]
    /\ sent' = sent

Init ==
    /\ \E store \in Stores :
          LET s == NewKernel(store)
          IN /\ Committing = s.Committing
             /\ Voting = s.Voting
             /\ NextRound = s.NextRound
             /\ CommittingBlock = s.CommittingBlock
             /\ InFlightFetchPBs = s.InFlightFetchPBs
             /\ NilVotedRound = s.NilVotedRound
             /\ StateMachineView = s.StateMachineView
             /\ mirrorStoreNHR = StoredNHR(store)
    /\ fetchRequests = <<>>
    /\ commits = <<>>
    /\ ctxDone = FALSE
    /\ run = "running"
    /\ changes = 0
    /\ last = NoEvent
    /\ sent = EmptyMap
    /\ pending = <<>>
    /\ stateUpdate = <<>>

(***************************************************************************)
(* The requests senders put on the kernel's input channels.                *)
(***************************************************************************)
\* One (height, round) for every answer FindView can give in this state:
\* the three views, then a round before Committing, another round of the
\* committing height, an abandoned round of the voting height, a later
\* round of the voting height, the next height and the one after it.
TargetRounds ==
    LET ch == Committing.VRV.Height
        cr == Committing.VRV.Round
        vh == Voting.VRV.Height
        vr == Voting.VRV.Round
    IN {<<vh, vr>>, <<vh, vr + 1>>, <<vh, vr + 2>>, <<vh + 1, 0>>, <<vh + 2, 0>>}
       \cup (IF ch >= InitialHeight THEN {<<ch, cr>>, <<ch, cr + 1>>} ELSE {})
       \cup (IF ch > InitialHeight THEN {<<ch - 1, 0>>} ELSE {})
       \cup (IF vr > 0 THEN {<<vh, vr - 1>>} ELSE {})

Update(proof, prevVersion) == [Proof |-> proof, PrevVersion |-> prevVersion]

Single(h, u) == [x \in {h} |-> u]
Pair(h, u, g, w) == [x \in {h, g} |-> IF x = h THEN u ELSE w]

\* The update maps of a vote request to a found view whose per-hash
\* versions are v.  One hash with the current version, carrying every
\* validator's signature or only the first one's; one hash with a version
\* that is not the current one; two hashes, both current, one current, or
\* none current; no hash at all.
VoteUpdates(v) ==
    {EmptyMap}
    \cup {Single(h, Update(Vals, v[h])) : h \in Hashes}
    \cup {Single(h, Update({1}, v[h])) : h \in {NilHash, "a"}}
    \cup {Single(h, Update(Vals, v[h] + 1)) : h \in {NilHash, "a"}}
    \cup {Single("a", Update(Vals, v["a"] - 1)) : x \in IF v["a"] > 0 THEN {0} ELSE {}}
    \cup {Pair("a", Update({1}, v["a"]), "b", Update({1}, v["b"])),
          Pair("a", Update(Vals, v["a"]), "b", Update(Vals, v["b"] + 1)),
          Pair(NilHash, Update(Vals, v[NilHash] + 1), "a", Update({1}, v["a"])),
          Pair(NilHash, Update(Vals, v[NilHash]), "a", Update(Vals, v["a"] + 1))}

VoteRequest(op, h, r, updates) ==
    [op |-> op, H |-> h, R |-> r, Updates |-> updates, HasResponse |-> TRUE]

VoteRequests(op) ==
    UNION { LET f == FindView(KS, hr[1], hr[2])
                vrv == ViewOf(KS, f.id).VRV
                versions == IF op = "addPrevote" THEN vrv.PrevoteBlockVersions
                            ELSE vrv.PrecommitBlockVersions
            IN IF f.status = ViewFound
               THEN {VoteRequest(op, hr[1], hr[2], u) : u \in VoteUpdates(versions)}
               ELSE {VoteRequest(op, hr[1], hr[2], Single(NilHash, Update(Vals, 0)))}
          : hr \in TargetRounds }

\* The commit proofs a block proposed now can carry: none, the first or
\* every validator's precommit for the committing block, or a precommit
\* for a block that is not the committing block, all of the committing
\* round; or every validator's precommit for the committing block, of
\* the round after the committing round.
PrevCommitProofsNow ==
    LET cbh == CommittingBlock.Hash
        cr == Committing.VRV.Round
        other == IF cbh = "a" THEN "b" ELSE "a"
    IN {CommitProof(cr, EmptyMap), CommitProof(cr, Single(other, Vals))}
       \cup (IF cbh # NilHash
             THEN {CommitProof(cr, Single(cbh, {1})), CommitProof(cr, Single(cbh, Vals)),
                   CommitProof(cr + 1, Single(cbh, Vals))}
             ELSE {})

PBRequests ==
    UNION { LET f == FindView(KS, hr[1], hr[2])
                vals == IF f.status = ViewFound THEN ViewOf(KS, f.id).VRV.Validators ELSE Vals
            IN {[op |-> "addPB", From |-> "network",
                 PB |-> ProposedBlock(hr[1], hr[2], hash, pcp, vals)]
                  : hash \in BlockHashes,
                    pcp \in IF f.id \in {ViewIDVoting, ViewIDNextRound}
                            THEN PrevCommitProofsNow ELSE {CommitProof(0, EmptyMap)}}
          : hr \in TargetRounds }

\* The proposed blocks the fetcher can deliver: a block it was asked for
\* and has not been told to forget, at the height of the request.
FetchedPBs ==
    {[req EXCEPT !.From = "fetcher"] :
        req \in {q \in PBRequests :
                    /\ q.PB.Block.Hash \in DOMAIN InFlightFetchPBs
                    /\ q.PB.Block.Height = InFlightFetchPBs[q.PB.Block.Hash].Height}}

\* An orderly network: every request is for the voting round or, late,
\* for the committing round; a proposed block carries the whole commit
\* proof of the block committed before it, and a precommit request carries
\* every validator's precommit for one hash and the current version.
ChainViews ==
    {Voting} \cup (IF Committing.VRV.Height >= InitialHeight THEN {Committing} ELSE {})

ChainPBRequests ==
    LET cbh == CommittingBlock.Hash
        pcp(view) == IF view = Voting /\ cbh # NilHash
                     THEN CommitProof(Committing.VRV.Round,
                                      Single(cbh, Committing.VRV.Validators))
                     ELSE CommitProof(0, EmptyMap)
    IN {[op |-> "addPB", From |-> "network",
         PB |-> ProposedBlock(view.VRV.Height, view.VRV.Round, hash, pcp(view),
                              view.VRV.Validators)]
          : hash \in BlockHashes, view \in ChainViews}

ChainPrecommitRequests ==
    {VoteRequest("addPrecommit", view.VRV.Height, view.VRV.Round,
                 Single(h, Update(view.VRV.Validators, view.VRV.PrecommitBlockVersions[h])))
       : h \in Hashes, view \in ChainViews}

\* The requests that change nothing: PB checks for every kind of round and
\* proposer, snapshots and view lookups.
PBCheckRequests ==
    {[op |-> "pbCheck",
      PB |-> ProposedBlock(hr[1], hr[2], hash, CommitProof(0, EmptyMap), Vals),
      ProposerPubKey |-> key]
        : hr \in TargetRounds, hash \in BlockHashes, key \in {1, NumVals, UnknownPubKey}}

SnapshotRequests ==
    {[op |-> "snapshot", Voting |-> v, Committing |-> c, Fields |-> f]
        : v \in BOOLEAN, c \in BOOLEAN, f \in {RVAll, {RVPrevotes}, {}}}

ViewLookupRequests ==
    {[op |-> "viewLookup", H |-> hr[1], R |-> hr[2], Reason |-> "lookup", Fields |-> RVAll]
        : hr \in TargetRounds}

\* The state machine enters a round.
RoundUpdates == {[op |-> "roundUpdate", H |-> hr[1], R |-> hr[2]] : hr \in TargetRounds}

\* The senders make requests while the kernel runs and the bound allows.
Accepting(bound) ==
    /\ run = "running"
    /\ changes < bound
    /\ last = NoEvent

(***************************************************************************)
(* Actions.                                                                *)
(***************************************************************************)
\* case pb := <-k.addPBRequests
HandleAddPB(reqs) ==
    /\ \E req \in reqs : Apply(req, addPB(KS, req.PB))
    /\ UNCHANGED <<ctxDone, pending, stateUpdate, mirrorStoreNHR>>

\* case req := <-k.addPrevoteRequests
HandleAddPrevote(reqs) ==
    /\ \E req \in reqs : \E t \in addPrevote(KS, req) : Apply(req, t)
    /\ UNCHANGED <<ctxDone, pending, stateUpdate, mirrorStoreNHR>>

\* case req := <-k.addPrecommitRequests
HandleAddPrecommit(reqs) ==
    /\ \E req \in reqs : \E t \in addPrecommit(KS, req) : Apply(req, t)
    /\ UNCHANGED <<ctxDone, pending, stateUpdate, mirrorStoreNHR>>

AddPB == Accepting(MaxChanges) /\ HandleAddPB(PBRequests)

AddPrevote == Accepting(MaxChanges) /\ HandleAddPrevote(VoteRequests("addPrevote"))

AddPrecommit == Accepting(MaxChanges) /\ HandleAddPrecommit(VoteRequests("addPrecommit"))

\* case pb := <-k.pbf.FetchedProposedBlocks
FetchedPB == Accepting(MaxChanges) /\ HandleAddPB(FetchedPBs)

ChainAddPB == Accepting(MaxChainChanges) /\ HandleAddPB(ChainPBRequests)

ChainAddPrecommit == Accepting(MaxChainChanges) /\ HandleAddPrecommit(ChainPrecommitRequests)

\* A sender starts to wait on one of the kernel's unbuffered input channels.
LoopRequests ==
    PBRequests \cup VoteRequests("addPrevote") \cup VoteRequests("addPrecommit")
    \cup PBCheckRequests \cup SnapshotRequests \cup ViewLookupRequests \cup RoundUpdates

PlaceWithin(bound) ==
    /\ Accepting(bound)
    /\ pending = <<>>
    /\ \E req \in LoopRequests : pending' = <<req>>
    /\ UNCHANGED <<Committing, Voting, NextRound, CommittingBlock, InFlightFetchPBs,
                   NilVotedRound, StateMachineView, fetchRequests, commits, ctxDone,
                   run, changes, last, sent, stateUpdate, mirrorStoreNHR>>

Place == PlaceWithin(MaxLoopChanges)

AskPlace == PlaceWithin(MaxAskChanges)

\* The select of mainLoop takes a receive case when a sender waits on its
\* channel, whether or not the send cases beside it have a receiver.
ReceiveReadyAfterSends(p, op) ==
    /\ p # <<>>
    /\ p[1].op = op
    /\ Voting.Outgoing.Sent /\ Committing.Outgoing.Sent /\ NextRound.Outgoing.Sent

ReceiveReady(p, op) == p # <<>> /\ p[1].op = op

\* The receive case of the waiting request is taken and its handler ends in t.
Receive(t) ==
    /\ run = "running"
    /\ Apply(pending[1], t)
    /\ pending' = <<>>
    /\ UNCHANGED ctxDone

LoopAddPB ==
    /\ ReceiveReady(pending, "addPB")
    /\ Receive(addPB(KS, pending[1].PB))
    /\ UNCHANGED <<stateUpdate, mirrorStoreNHR>>

LoopAddPrevote ==
    /\ ReceiveReady(pending, "addPrevote")
    /\ \E t \in addPrevote(KS, pending[1]) : Receive(t)
    /\ UNCHANGED <<stateUpdate, mirrorStoreNHR>>

LoopAddPrecommit ==
    /\ ReceiveReady(pending, "addPrecommit")
    /\ \E t \in addPrecommit(KS, pending[1]) : Receive(t)
    /\ UNCHANGED <<stateUpdate, mirrorStoreNHR>>

\* case req := <-k.snapshotRequests
LoopSnapshot ==
    /\ ReceiveReady(pending, "snapshot")
    /\ Receive(sendSnapshotResponse(KS, pending[1]))
    /\ UNCHANGED <<stateUpdate, mirrorStoreNHR>>

\* case req := <-k.viewLookupRequests
LoopViewLookup ==
    /\ ReceiveReady(pending, "viewLookup")
    /\ Receive(sendViewLookupResponse(KS, pending[1]))
    /\ UNCHANGED <<stateUpdate, mirrorStoreNHR>>

\* case req := <-k.pbCheckRequests
LoopPBCheck ==
    /\ ReceiveReady(pending, "pbCheck")
    /\ Receive(sendPBCheckResponse(KS, pending[1]))
    /\ UNCHANGED <<stateUpdate, mirrorStoreNHR>>

\* case as := <-k.stateMachineIn
LoopRoundUpdate ==
    /\ ReceiveReady(pending, "roundUpdate")
    /\ LET t == handleStateMachineRoundUpdate(KS, pending[1])
       IN /\ Receive(t)
          /\ stateUpdate' = IF t.panicked THEN stateUpdate ELSE <<t.resp>>
    /\ UNCHANGED mirrorStoreNHR

\* The kernel's context is cancelled.
CancelCtx ==
    /\ run = "running"
    /\ ~ctxDone
    /\ ctxDone' = TRUE
    /\ UNCHANGED <<Committing, Voting, NextRound, CommittingBlock, InFlightFetchPBs,
                   NilVotedRound, StateMachineView, fetchRequests, commits,
                   run, changes, last, sent, pending, stateUpdate, mirrorStoreNHR>>

\* What the shutdown case leaves of the loop: it returns.
LoopGoesOn == "running"

LoopReturned == "stopped"

\* case <-ctx.Done(): mainLoop returns and the deferred close(k.done) runs.
Stop ==
    /\ run = "running"
    /\ ctxDone
    /\ run' = LoopReturned
    /\ UNCHANGED <<Committing, Voting, NextRound, CommittingBlock, InFlightFetchPBs,
                   NilVotedRound, StateMachineView, fetchRequests, commits, ctxDone,
                   changes, last, sent, pending, stateUpdate, mirrorStoreNHR>>

\* The proposed block fetcher receives from the FetchRequests channel.
FetcherReceive ==
    /\ fetchRequests # <<>>
    /\ last = NoEvent
    /\ fetchRequests' = Tail(fetchRequests)
    /\ UNCHANGED <<Committing, Voting, NextRound, CommittingBlock, InFlightFetchPBs,
                   NilVotedRound, StateMachineView, commits, ctxDone, run, changes, last,
                   sent, pending, stateUpdate, mirrorStoreNHR>>

\* The sender of the last request takes the reply off its response channel.
Settle ==
    /\ last # NoEvent
    /\ last' = NoEvent
    /\ UNCHANGED <<Committing, Voting, NextRound, CommittingBlock, InFlightFetchPBs,
                   NilVotedRound, StateMachineView, fetchRequests, commits, ctxDone,
                   run, changes, sent, pending, stateUpdate, mirrorStoreNHR>>

(***************************************************************************)
(* Outputs: the send cases of the select.  A view is offered on its own    *)
(* channel and in the gossip update while its outgoing copy is unsent.     *)
(***************************************************************************)
\* What a receiver sees of a view sent on channel ch.
EmissionOf(vrv, ch) ==
    [H |-> vrv.Height, R |-> vrv.Round, Version |-> vrv.Version, Ch |-> ch]

\* The highest version sent so far for every round, the items included.
RecordSent(m, items) ==
    LET rounds == (DOMAIN m) \cup {<<e.H, e.R>> : e \in items}
        versions(k) == (IF k \in DOMAIN m THEN {m[k]} ELSE {})
                       \cup {e.Version : e \in {x \in items : <<x.H, x.R>> = k}}
    IN [k \in rounds |-> CHOOSE v \in versions(k) : \A w \in versions(k) : w <= v]

\* A send case of the select was taken with the given values.
Emit(ch, items) ==
    /\ run = "running"
    /\ last = NoEvent
    /\ last' = [op |-> "emit", ch |-> ch, items |-> items, before |-> sent, calls |-> <<>>]
    /\ sent' = RecordSent(sent, items)
    /\ UNCHANGED <<CommittingBlock, InFlightFetchPBs, StateMachineView, fetchRequests,
                   commits, ctxDone, run, changes, pending, stateUpdate, mirrorStoreNHR>>

\* viewOutputs: if !s.Voting.Outgoing.HasBeenSent() { vo.VotingCh = k.votingViewOut }
\* (a nil channel otherwise, whose send case is never ready).
OfferedAlways(view) == TRUE

Offered(view) == ~view.Outgoing.Sent

\* case vo.VotingCh <- vo.VotingVal
EmitVoting ==
    /\ Offered(Voting)
    /\ Emit("voting", {EmissionOf(Voting.Outgoing.VRV, "voting")})
    /\ Voting' = MarkSent(Voting)
    /\ UNCHANGED <<Committing, NextRound, NilVotedRound>>

\* case vo.CommittingCh <- vo.CommittingVal
EmitCommitting ==
    /\ Offered(Committing)
    /\ Emit("committing", {EmissionOf(Committing.Outgoing.VRV, "committing")})
    /\ Committing' = MarkSent(Committing)
    /\ UNCHANGED <<Voting, NextRound, NilVotedRound>>

\* case vo.NextRoundCh <- vo.NextRoundVal
EmitNextRound ==
    /\ Offered(NextRound)
    /\ Emit("nextRound", {EmissionOf(NextRound.Outgoing.VRV, "nextRound")})
    /\ NextRound' = MarkSent(NextRound)
    /\ UNCHANGED <<Voting, Committing, NilVotedRound>>

\* gossipStrategyOutput: every unsent view and the nil voted round.
gossipStrategyOutput ==
    {EmissionOf(v.Outgoing.VRV, "gossip") :
        v \in {w \in {Voting, Committing, NextRound} : ~w.Outgoing.Sent}}
    \cup {EmissionOf(NilVotedRound[i], "gossip") : i \in DOMAIN NilVotedRound}

\* case gsOut.Ch <- gsOut.Val, and gossipStrategyOut.MarkSent
EmitGossip ==
    /\ gossipStrategyOutput # {}
    /\ Emit("gossip", gossipStrategyOutput)
    /\ Voting' = MarkSent(Voting)
    /\ Committing' = MarkSent(Committing)
    /\ NextRound' = MarkSent(NextRound)
    /\ NilVotedRound' = <<>>

OutAddPB == Accepting(MaxOutChanges) /\ HandleAddPB(PBRequests)

OutAddPrevote == Accepting(MaxOutChanges) /\ HandleAddPrevote(VoteRequests("addPrevote"))

OutAddPrecommit == Accepting(MaxOutChanges) /\ HandleAddPrecommit(VoteRequests("addPrecommit"))

(***************************************************************************)
(* The scenarios: a kernel that starts at the initial height with four     *)
(* validators of equal power, and votes signed by the first k of them.     *)
(***************************************************************************)
ScenarioVals == 1..ScenarioNumVals

ScenarioKernel ==
    LET store == CHOOSE st \in Stores : st.Uninitialized
    IN [NewKernel(store) EXCEPT
          !.Voting = LoadedView(loadInitialView(store, InitialHeight, 0, ScenarioVals)),
          !.NextRound = LoadedView(loadInitialView(store, InitialHeight, 1, ScenarioVals))]

ScenarioInit ==
    /\ Committing = ScenarioKernel.Committing
    /\ Voting = ScenarioKernel.Voting
    /\ NextRound = ScenarioKernel.NextRound
    /\ CommittingBlock = ScenarioKernel.CommittingBlock
    /\ InFlightFetchPBs = ScenarioKernel.InFlightFetchPBs
    /\ NilVotedRound = ScenarioKernel.NilVotedRound
    /\ StateMachineView = ScenarioKernel.StateMachineView
    /\ mirrorStoreNHR = StoredNHR(CHOOSE st \in Stores : st.Uninitialized)
    /\ fetchRequests = <<>>
    /\ commits = <<>>
    /\ ctxDone = FALSE
    /\ run = "running"
    /\ changes = 0
    /\ last = NoEvent
    /\ sent = EmptyMap
    /\ pending = <<>>
    /\ stateUpdate = <<>>

\* The votes of the first k validators for one hash, with the current version.
ScenarioVotes(op) ==
    {VoteRequest(op, view.VRV.Height, view.VRV.Round,
                 Single(h, Update(1..k, (IF op = "addPrevote"
                                         THEN view.VRV.PrevoteBlockVersions
                                         ELSE view.VRV.PrecommitBlockVersions)[h])))
       : h \in Hashes, k \in ScenarioVals, view \in {Voting, NextRound}}

ScenarioPBs ==
    {[op |-> "addPB", From |-> "network",
      PB |-> [ProposedBlock(Voting.VRV.Height, Voting.VRV.Round, hash,
                            CommitProof(0, EmptyMap), ScenarioVals)
                 EXCEPT !.Block.NextValidators = ScenarioVals]]
       : hash \in BlockHashes}

ScenarioAddPB == Accepting(MaxScenarioChanges) /\ HandleAddPB(ScenarioPBs)

ScenarioAddPrevote ==
    Accepting(MaxScenarioChanges) /\ HandleAddPrevote(ScenarioVotes("addPrevote"))

ScenarioAddPrecommit ==
    Accepting(MaxScenarioChanges) /\ HandleAddPrecommit(ScenarioVotes("addPrecommit"))

ScenarioNext ==
    \/ ScenarioAddPB \/ ScenarioAddPrevote \/ ScenarioAddPrecommit
    \/ FetcherReceive \/ Settle

SpecScenario == ScenarioInit /\ [][ScenarioNext]_vars

\* Any request at all, to a kernel constructed on any of the stores.
Next == AddPB \/ AddPrevote \/ AddPrecommit \/ FetchedPB \/ FetcherReceive \/ Settle

Spec == Init /\ [][Next]_vars

\* The requests of an orderly network, to a kernel constructed on an
\* uninitialized store.
ChainInit == Init /\ Voting.VRV.Height = InitialHeight

ChainNext == ChainAddPB \/ ChainAddPrecommit \/ FetcherReceive \/ Settle

SpecChain == ChainInit /\ [][ChainNext]_vars

\* Any request at all, with the kernel's outputs taken between them.
OutNext ==
    \/ OutAddPB \/ OutAddPrevote \/ OutAddPrecommit
    \/ EmitVoting \/ EmitCommitting \/ EmitNextRound \/ EmitGossip
    \/ Settle

SpecOut == Init /\ [][OutNext]_vars

\* Requests that wait on the input channels of a kernel whose outputs nobody
\* receives and whose context can be cancelled at any time.  The select
\* chooses among its ready cases at random, so no ready case waits for ever.
LoopReceive ==
    \/ LoopAddPB \/ LoopAddPrevote \/ LoopAddPrecommit
    \/ LoopSnapshot \/ LoopViewLookup \/ LoopPBCheck \/ LoopRoundUpdate

LoopNext ==
    \/ Place
    \/ LoopReceive
    \/ CancelCtx \/ Stop
    \/ FetcherReceive \/ Settle

LoopFairness == WF_vars(LoopReceive) /\ WF_vars(Stop)

SpecLoop == Init /\ [][LoopNext]_vars /\ LoopFairness

\* The same requests, more of them in a row, whatever the scheduling.
AskNext ==
    \/ AskPlace
    \/ LoopReceive
    \/ CancelCtx \/ Stop
    \/ FetcherReceive \/ Settle

SpecAsk == Init /\ [][AskNext]_vars

(***************************************************************************)
(* What the handlers are checked against.  In a state where last is a      *)
(* request, last.pre is the kState the handler met and the variables are   *)
(* the kState it left.                                                     *)
(***************************************************************************)
VoteHandled == last.op \in {"addPrevote", "addPrecommit"}

FoundVoteHandled == VoteHandled /\ last.status = ViewFound

\* The view the request was for, as the handler met it.
PreVRV == ViewOf(last.pre, last.id).VRV

\* The round the request was for, as the handler left it: in one of the
\* three views, or stashed in NilVotedRound when voting moved past it.
PostVRV ==
    LET f == FindView(Here, last.req.H, last.req.R)
    IN IF f.status = ViewFound THEN ViewOf(Here, f.id).VRV ELSE NilVotedRound[1]

ProofsOf(vrv) == IF last.op = "addPrevote" THEN vrv.PrevoteProofs ELSE vrv.PrecommitProofs

VersionsOf(vrv) ==
    IF last.op = "addPrevote" THEN vrv.PrevoteBlockVersions ELSE vrv.PrecommitBlockVersions

\* The hashes of the request whose update is stale, and those whose is not.
StaleInRequest ==
    {h \in DOMAIN last.req.Updates : last.req.Updates[h].PrevVersion # VersionsOf(PreVRV)[h]}

FreshInRequest == (DOMAIN last.req.Updates) \ StaleInRequest

ViewsUnchanged ==
    /\ Committing = last.pre.Committing
    /\ Voting = last.pre.Voting
    /\ NextRound = last.pre.NextRound

\* The proof and the version of hash h in the request's round are as before.
HashUntouched(h) ==
    /\ VersionsOf(PostVRV)[h] = VersionsOf(PreVRV)[h]
    /\ h \in DOMAIN ProofsOf(PostVRV) <=> h \in DOMAIN ProofsOf(PreVRV)
    /\ h \in DOMAIN ProofsOf(PreVRV) => ProofsOf(PostVRV)[h] = ProofsOf(PreVRV)[h]

\* The update for hash h was installed in the request's round.
HashInstalled(h) ==
    /\ VersionsOf(PostVRV)[h] = VersionsOf(PreVRV)[h] + 1
    /\ h \in DOMAIN ProofsOf(PostVRV)
    /\ ProofsOf(PostVRV)[h] = last.req.Updates[h].Proof

\* C1: a prevote or precommit request for a height below the committing
\* view, or for a round of the voting height that voting has left behind,
\* is answered OutOfDate and changes no view: proofs, versions and vote
\* summaries of Committing, Voting and NextRound are as before.
C1_StaleRoundOutOfDate ==
    (/\ VoteHandled
     /\ \/ last.req.H < last.pre.Committing.VRV.Height
        \/ /\ last.req.H = last.pre.Voting.VRV.Height
           /\ last.req.R < last.pre.Voting.VRV.Round)
    => /\ last.status \in {ViewBeforeCommitting, ViewOrphaned}
       /\ last.resp = AddVoteOutOfDate
       /\ ViewsUnchanged

C1_Witness ==
    /\ last.op = "addPrecommit"
    /\ last.status = ViewOrphaned
    /\ last.req.R < Voting.VRV.Round
    /\ last.resp = AddVoteOutOfDate

\* C2: a prevote or precommit request to a found view is answered Accepted
\* exactly when every update of the request carried the current version of
\* its hash, and then every update was installed; otherwise it is answered
\* Conflict.
C2_AcceptedIffAllCurrent ==
    FoundVoteHandled
    => /\ last.resp \in {AddVoteAccepted, AddVoteConflict}
       /\ last.resp = AddVoteAccepted <=> StaleInRequest = {}
       /\ last.resp = AddVoteAccepted => \A h \in DOMAIN last.req.Updates : HashInstalled(h)

C2_Witness ==
    /\ FoundVoteHandled
    /\ last.resp = AddVoteAccepted
    /\ Cardinality(DOMAIN last.req.Updates) = 2

\* C3 as amended: a request with a stale update is answered Conflict and
\* the stale update is not installed (the proof and version of its hash
\* stay); the updates of the same request that carry the current version
\* are installed all the same, and when there is none no view changes.
C3_StaleUpdateNotInstalled ==
    (FoundVoteHandled /\ StaleInRequest # {})
    => /\ last.resp = AddVoteConflict
       /\ \A h \in StaleInRequest : HashUntouched(h)
       /\ \A h \in FreshInRequest : HashInstalled(h)
       /\ FreshInRequest = {} => ViewsUnchanged

C3_Witness ==
    /\ FoundVoteHandled
    /\ StaleInRequest # {}
    /\ FreshInRequest # {}
    /\ last.resp = AddVoteConflict
    /\ ~ViewsUnchanged

\* C3 as claimed: a request with a stale update is answered Conflict and
\* no view differs from before the request.
C3_Original ==
    (FoundVoteHandled /\ StaleInRequest # {})
    => /\ last.resp = AddVoteConflict
       /\ ViewsUnchanged

\* C4: of two updates for one hash of one round that both claim version v,
\* the one handled first (it meets version v) is installed and, alone in
\* its request, answered Accepted; the one handled second (it meets version
\* v + 1) is answered Conflict and not installed; either way the version of
\* the hash is v + 1 afterwards.
C4_SameVersionRace ==
    FoundVoteHandled
    => \A h \in DOMAIN last.req.Updates :
          LET v == last.req.Updates[h].PrevVersion
              alone == DOMAIN last.req.Updates = {h}
          IN /\ VersionsOf(PreVRV)[h] = v
                => /\ HashInstalled(h)
                   /\ VersionsOf(PostVRV)[h] = v + 1
                   /\ alone => last.resp = AddVoteAccepted
             /\ VersionsOf(PreVRV)[h] = v + 1
                => /\ HashUntouched(h)
                   /\ VersionsOf(PostVRV)[h] = v + 1
                   /\ last.resp = AddVoteConflict

C4_Witness ==
    /\ FoundVoteHandled
    /\ DOMAIN last.req.Updates = {"a"}
    /\ last.req.Updates["a"].PrevVersion = 0
    /\ VersionsOf(PreVRV)["a"] = 1
    /\ VersionsOf(PostVRV)["a"] = 1
    /\ last.resp = AddVoteConflict

\* C5 as claimed: a prevote or precommit request for a height beyond
\* Voting.Height + 1 is answered OutOfDate.
C5_Original ==
    (VoteHandled /\ last.req.H > last.pre.Voting.VRV.Height + 1)
    => last.resp = AddVoteOutOfDate

\* The handler ran checkVotingPrecommitViewShift: an accepted precommit
\* request to Voting, or a proposed block added to Voting whose hash had a
\* precommit proof.
VotingChecked ==
    /\ run = "running"
    /\ last.op \in {"addPrecommit", "addPB"}
    /\ last.id = ViewIDVoting
    /\ last.op = "addPrecommit" => last.resp = AddVoteAccepted
    /\ last.op = "addPB" => /\ last.added
                            /\ last.req.PB.Block.Hash
                                  \in DOMAIN last.pre.Voting.VRV.PrecommitProofs

\* The round that was voting when the handler began, as the handler left it.
CheckedVRV ==
    LET f == FindView(Here, last.pre.Voting.VRV.Height, last.pre.Voting.VRV.Round)
    IN IF f.status = ViewFound THEN ViewOf(Here, f.id).VRV ELSE NilVotedRound[1]

MajorityHash(vrv) == vrv.VoteSummary.MostVotedPrecommitHash

HasPrecommitMajority(vrv) ==
    Get0(vrv.VoteSummary.PrecommitBlockPower, MajorityHash(vrv))
        >= ByzantineMajority(vrv.VoteSummary.AvailablePower)

CommitReady(vrv) ==
    /\ HasPrecommitMajority(vrv)
    /\ MajorityHash(vrv) # NilHash
    /\ HasPB(vrv, MajorityHash(vrv))

\* A view just initialized for (h, r) with the given validators.
FreshVRV(vrv, h, r, vals) ==
    /\ vrv.Height = h /\ vrv.Round = r /\ vrv.Validators = vals
    /\ vrv.ProposedBlocks = <<>>
    /\ vrv.PrevoteProofs = NilProofs /\ vrv.PrecommitProofs = NilProofs
    /\ vrv.PrevoteBlockVersions = ZeroVersions /\ vrv.PrecommitBlockVersions = ZeroVersions
    /\ vrv.VoteSummary = SetAvailablePower(NewVoteSummary, vals)

\* vrv holds the round old with nothing of it lost.
HoldsRound(vrv, old) ==
    /\ vrv.Height = old.Height /\ vrv.Round = old.Round
    /\ vrv.Validators = old.Validators
    /\ vrv.PrevoteProofs = old.PrevoteProofs
    /\ vrv.PrevoteBlockVersions = old.PrevoteBlockVersions
    /\ SubSeq(vrv.ProposedBlocks, 1, Len(old.ProposedBlocks)) = old.ProposedBlocks
    /\ \A h \in DOMAIN old.PrecommitProofs :
          /\ h \in DOMAIN vrv.PrecommitProofs
          /\ old.PrecommitProofs[h] \subseteq vrv.PrecommitProofs[h]

\* C6: when the voting-precommit check meets a Voting view at (h, r) whose
\* most-voted precommit hash is a block's, with majority power, and the
\* block is among its proposed blocks, the kernel commits: Committing holds
\* the round (h, r) that was voting, CommittingBlock is that block, Voting
\* is a fresh view at (h + 1, 0) with the block's NextValidators and
\* NextRound a fresh view at (h + 1, 1).
C6_CommitShift ==
    (VotingChecked /\ CommitReady(CheckedVRV))
    => /\ HoldsRound(Committing.VRV, last.pre.Voting.VRV)
       /\ Committing.VRV = CheckedVRV
       /\ CommittingBlock =
             FirstPBWithHash(Committing.VRV.ProposedBlocks, MajorityHash(Committing.VRV)).Block
       /\ FreshVRV(Voting.VRV, Committing.VRV.Height + 1, 0, CommittingBlock.NextValidators)
       /\ FreshVRV(NextRound.VRV, Committing.VRV.Height + 1, 1, CommittingBlock.NextValidators)

C6_Witness ==
    /\ VotingChecked
    /\ CommitReady(CheckedVRV)
    /\ Committing.VRV.Height = last.pre.Voting.VRV.Height
    /\ CommittingBlock.Hash = "b"
    /\ Voting.VRV.Validators # Committing.VRV.Validators

\* C7: every height is committed at most once, and every height Committing
\* has passed through was committed exactly once: the heights of the commit
\* shifts so far are the initial height, the next one, and so on up to
\* Committing's height, each once.
C7_OneCommitPerHeight ==
    /\ \A i, j \in 1..Len(commits) : i < j => commits[i] # commits[j]
    /\ commits = [i \in 1..(Committing.VRV.Height - InitialHeight + 1)
                    |-> InitialHeight + i - 1]

C7_Witness ==
    /\ Len(commits) = 2
    /\ Committing.VRV.Height = InitialHeight + 1
    /\ last.op = "addPrecommit"
    /\ last.id = ViewIDCommitting
    /\ last.resp = AddVoteAccepted
    /\ HasPrecommitMajority(Committing.VRV)

\* The SaveBlock calls of the handler.
SaveBlockCalls == SelectSeq(last.calls, LAMBDA c : c.call = "SaveBlock")

\* The handler moved the voting round to Committing.
CommitHandled ==
    /\ last.op \in {"addPrecommit", "addPB"}
    /\ run = "running"
    /\ Committing.VRV.Height = last.pre.Voting.VRV.Height
    /\ Committing.VRV.Round = last.pre.Voting.VRV.Round

\* C8 as amended: when block A of height H is committed, SaveBlock is
\* called exactly once, with the block that was committing until then (the
\* block of height H - 1) paired with the PrevCommitProof that A carries;
\* when H is the initial height nothing is saved.  A itself is given to
\* SaveBlock by the commit of the next height.  No other handler calls
\* SaveBlock.
C8_SavesPreviousBlock ==
    last # NoEvent
    => IF CommitHandled /\ Committing.VRV.Height > InitialHeight
       THEN SaveBlockCalls =
               <<[call |-> "SaveBlock",
                  CB |-> [Block |-> last.pre.CommittingBlock,
                          Proof |-> CommittingBlock.PrevCommitProof]]>>
       ELSE SaveBlockCalls = <<>>

C8_Witness ==
    /\ CommitHandled
    /\ Len(SaveBlockCalls) = 1
    /\ SaveBlockCalls[1].CB.Block.Height = Committing.VRV.Height - 1
    /\ SaveBlockCalls[1].CB.Block # CommittingBlock
    /\ SaveBlockCalls[1].CB.Proof.Proofs # EmptyMap

\* C8 as claimed: when block A is committed, SaveBlock is called exactly
\* once with A and A's own PrevCommitProof, except at the initial height.
C8_Original ==
    (CommitHandled /\ Committing.VRV.Height > InitialHeight)
    => SaveBlockCalls =
          <<[call |-> "SaveBlock",
             CB |-> [Block |-> CommittingBlock, Proof |-> CommittingBlock.PrevCommitProof]]>>

NilMajority(vrv) == HasPrecommitMajority(vrv) /\ MajorityHash(vrv) = NilHash

\* A view re-initialized by advanceVotingRound for round r of the height.
ReinitializedVRV(vrv, old, r) ==
    /\ vrv.Height = old.Height /\ vrv.Round = r /\ vrv.Validators = old.Validators
    /\ vrv.ProposedBlocks = <<>>
    /\ vrv.PrevoteProofs = NilProofs /\ vrv.PrecommitProofs = NilProofs
    /\ vrv.PrevoteBlockVersions = ZeroVersions /\ vrv.PrecommitBlockVersions = ZeroVersions
    /\ vrv.VoteSummary = SetAvailablePower(NewVoteSummary, old.Validators)

\* C9: when the voting-precommit check meets a Voting view whose most-voted
\* precommit hash is nil with majority power, voting moves to the next
\* round of the same height, nothing is committed (Committing keeps its
\* round and CommittingBlock stays; a precommit request leaves Committing
\* wholly as it was) and NextRound is initialized anew for the round after
\* the new voting round.
C9_NilPrecommitAdvances ==
    (VotingChecked /\ NilMajority(CheckedVRV))
    => /\ Voting.VRV.Height = last.pre.Voting.VRV.Height
       /\ Voting.VRV.Round = last.pre.Voting.VRV.Round + 1
       /\ HoldsRound(Voting.VRV, last.pre.NextRound.VRV)
       /\ CommittingBlock = last.pre.CommittingBlock
       /\ Committing.VRV.Height = last.pre.Committing.VRV.Height
       /\ Committing.VRV.Round = last.pre.Committing.VRV.Round
       /\ last.op = "addPrecommit" => Committing = last.pre.Committing
       /\ ReinitializedVRV(NextRound.VRV, Voting.VRV, Voting.VRV.Round + 1)

C9_Witness ==
    /\ VotingChecked
    /\ NilMajority(CheckedVRV)
    /\ Voting.VRV.Round = 1
    /\ NextRound.VRV.Round = 2
    /\ last.pre.NextRound.VRV.ProposedBlocks # <<>>

\* The voting round has a block's hash precommitted by a majority and does
\* not have the block.
Stuck(vrv) ==
    /\ HasPrecommitMajority(vrv)
    /\ MajorityHash(vrv) # NilHash
    /\ ~HasPB(vrv, MajorityHash(vrv))

C11_LateBlockCommits ==
    (/\ last.op = "addPB"
     /\ run = "running"
     /\ last.id = ViewIDVoting
     /\ Stuck(last.pre.Voting.VRV)
     /\ last.req.PB.Block.Hash = MajorityHash(last.pre.Voting.VRV))
    => /\ last.added
       /\ last.shift = "commit"
       /\ commits # <<>>
       /\ commits[Len(commits)] = last.pre.Voting.VRV.Height
       /\ Committing.VRV.Height = last.pre.Voting.VRV.Height
       /\ Committing.VRV.Round = last.pre.Voting.VRV.Round
       /\ CommittingBlock = last.req.PB.Block
       /\ Voting.VRV.Height = last.pre.Voting.VRV.Height + 1

C11_Witness ==
    /\ last.op = "addPB"
    /\ last.req.From = "fetcher"
    /\ last.id = ViewIDVoting
    /\ Stuck(last.pre.Voting.VRV)
    /\ last.req.PB.Block.Hash = MajorityHash(last.pre.Voting.VRV)
    /\ last.shift = "commit"
    /\ CommittingBlock.Hash = "b"

\* C12: when the voting-precommit check meets a Voting view in which no
\* hash has majority precommit power, then if the total precommit power
\* equals the available power voting moves to the next round of the same
\* height (and NextRound to the round after it, nothing is committed), and
\* otherwise nothing shifts: the voting round stays as the request left it
\* and NextRound is as before.
C12_AllVotedAdvances ==
    (VotingChecked /\ ~HasPrecommitMajority(CheckedVRV))
    => IF CheckedVRV.VoteSummary.TotalPrecommitPower = CheckedVRV.VoteSummary.AvailablePower
       THEN /\ last.shift = "advance"
            /\ Voting.VRV.Height = last.pre.Voting.VRV.Height
            /\ Voting.VRV.Round = last.pre.Voting.VRV.Round + 1
            /\ NextRound.VRV.Height = last.pre.Voting.VRV.Height
            /\ NextRound.VRV.Round = last.pre.Voting.VRV.Round + 2
            /\ Committing.VRV.Height = last.pre.Committing.VRV.Height
            /\ Committing.VRV.Round = last.pre.Committing.VRV.Round
            /\ CommittingBlock = last.pre.CommittingBlock
       ELSE /\ last.shift = "none"
            /\ Voting.VRV = CheckedVRV
            /\ NextRound = last.pre.NextRound
            /\ Committing.VRV.Height = last.pre.Committing.VRV.Height
            /\ Committing.VRV.Round = last.pre.Committing.VRV.Round
            /\ CommittingBlock = last.pre.CommittingBlock

C12_Witness ==
    /\ VotingChecked
    /\ last.op = "addPrecommit"
    /\ ~HasPrecommitMajority(CheckedVRV)
    /\ CheckedVRV.VoteSummary.TotalPrecommitPower = CheckedVRV.VoteSummary.AvailablePower
    /\ CheckedVRV.VoteSummary.MostVotedPrecommitHash # NilHash
    /\ Voting.VRV.Round = last.pre.Voting.VRV.Round + 1

\* The handler ran the next-round view shift check: an accepted prevote or
\* precommit request to NextRound, in a kernel that keeps running.
NextRoundChecked ==
    /\ run = "running"
    /\ VoteHandled
    /\ last.id = ViewIDNextRound
    /\ last.resp = AddVoteAccepted

\* The total power of the request's vote kind in the round's vote summary.
TotalPowerOf(vrv) ==
    IF last.op = "addPrevote" THEN vrv.VoteSummary.TotalPrevotePower
    ELSE vrv.VoteSummary.TotalPrecommitPower

\* C13: after an accepted prevote or precommit request to NextRound, if the
\* round's total power of that vote kind is at least the minority
\* threshold, voting has moved by one round to the round that was NextRound
\* and NextRound is the round after it; if it is below, nothing shifted.
C13_NextRoundMinorityAdvances ==
    NextRoundChecked
    => IF TotalPowerOf(PostVRV) >= ByzantineMinority(PostVRV.VoteSummary.AvailablePower)
       THEN /\ last.shift = "advance"
            /\ Voting.VRV.Height = last.pre.NextRound.VRV.Height
            /\ Voting.VRV.Round = last.pre.NextRound.VRV.Round
            /\ Voting.VRV.Height = last.pre.Voting.VRV.Height
            /\ Voting.VRV.Round = last.pre.Voting.VRV.Round + 1
            /\ NextRound.VRV.Height = Voting.VRV.Height
            /\ NextRound.VRV.Round = Voting.VRV.Round + 1
            /\ Committing = last.pre.Committing
       ELSE /\ last.shift = "none"
            /\ Voting = last.pre.Voting
            /\ NextRound.VRV.Height = last.pre.NextRound.VRV.Height
            /\ NextRound.VRV.Round = last.pre.NextRound.VRV.Round
            /\ Committing = last.pre.Committing

C13_Witness ==
    /\ NextRoundChecked
    /\ last.op = "addPrevote"
    /\ "a" \in DOMAIN last.req.Updates
    /\ TotalPowerOf(PostVRV) >= ByzantineMinority(PostVRV.VoteSummary.AvailablePower)
    /\ TotalPowerOf(last.pre.NextRound.VRV) < ByzantineMinority(PostVRV.VoteSummary.AvailablePower)
    /\ Voting.VRV.Round = last.pre.Voting.VRV.Round + 1
    /\ NextRound.VRV.Round = last.pre.Voting.VRV.Round + 2

\* C14: in every state NextRound is the round after Voting at Voting's
\* height, and once Committing holds a round Voting's height is at least
\* one above Committing's.
C14_ViewsInStep ==
    /\ NextRound.VRV.Height = Voting.VRV.Height
    /\ NextRound.VRV.Round = Voting.VRV.Round + 1
    /\ Committing.VRV.Height >= InitialHeight
          => Voting.VRV.Height >= Committing.VRV.Height + 1

C14_Witness ==
    /\ last.op \in {"addPrevote", "addPrecommit", "addPB"}
    /\ last.shift = "advance"
    /\ Committing.VRV.Height >= InitialHeight
    /\ Voting.VRV.Round = 1
    /\ NextRound.VRV.Round = 2
    /\ Voting.VRV.Height = Committing.VRV.Height + 1

\* C15: no step of the kernel lowers Voting's height or Committing's
\* height, and none moves Voting's (height, round) backwards in
\* lexicographic order.
C15_HeightsNeverDecrease ==
    [][/\ Voting'.VRV.Height >= Voting.VRV.Height
       /\ Committing'.VRV.Height >= Committing.VRV.Height
       /\ \/ Voting'.VRV.Height > Voting.VRV.Height
          \/ Voting'.VRV.Round >= Voting.VRV.Round]_vars

C15_Witness ==
    /\ last.op = "addPrecommit"
    /\ last.shift = "commit"
    /\ last.pre.Voting.VRV.Round = 1
    /\ Voting.VRV.Round = 0
    /\ Voting.VRV.Height = last.pre.Voting.VRV.Height + 1
    /\ Committing.VRV.Height = last.pre.Committing.VRV.Height + 1

\* The three views, and whether view w tracks the same round as view v.
Views == <<Committing, Voting, NextRound>>

SameRound(v, w) == v.VRV.Height = w.VRV.Height /\ v.VRV.Round = w.VRV.Round

\* C16: an installed update raises the per-hash version of its hash by one,
\* and no step lowers or resets a per-hash version of a round that is
\* tracked before and after the step, whichever view holds the round
\* before and whichever after (NextRound to Voting on a round advance,
\* Voting to Committing on a commit).
C16_HashVersionsMonotonic ==
    /\ [](FoundVoteHandled
            => \A h \in FreshInRequest :
                  VersionsOf(PostVRV)[h] = VersionsOf(PreVRV)[h] + 1)
    /\ [][\A i, j \in 1..3 :
              SameRound(Views[i], Views'[j])
              => \A h \in Hashes :
                    /\ Views'[j].VRV.PrevoteBlockVersions[h]
                          >= Views[i].VRV.PrevoteBlockVersions[h]
                    /\ Views'[j].VRV.PrecommitBlockVersions[h]
                          >= Views[i].VRV.PrecommitBlockVersions[h]]_vars

C16_Witness ==
    /\ FoundVoteHandled
    /\ last.shift = "advance"
    /\ last.pre.NextRound.VRV.PrevoteBlockVersions["a"] = 1
    /\ last.pre.NextRound.VRV.PrecommitBlockVersions["a"] = 0
    /\ Voting.VRV.Round = last.pre.NextRound.VRV.Round
    /\ Voting.VRV.PrevoteBlockVersions["a"] = 1
    /\ Voting.VRV.PrecommitBlockVersions["a"] = 1

\* The version of the request's vote kind in the round.
KindVersionOf(vrv) ==
    IF last.op = "addPrevote" THEN vrv.PrevoteVersion ELSE vrv.PrecommitVersion

\* C17 as claimed: when a request installs an update in a view, the view's
\* version of that vote kind (PrevoteVersion or PrecommitVersion) and its
\* overall version are higher than before.
C17_Original ==
    (FoundVoteHandled /\ FreshInRequest # {} /\ last.shift = "none")
    => /\ KindVersionOf(PostVRV) > KindVersionOf(PreVRV)
       /\ PostVRV.Version > PreVRV.Version

\* C17, what the handlers do instead: the overall version rises with an
\* installed update, the version of the vote kind stays.
C17_KindVersionStays ==
    (FoundVoteHandled /\ FreshInRequest # {} /\ last.shift = "none")
    => /\ KindVersionOf(PostVRV) = KindVersionOf(PreVRV)
       /\ PostVRV.Version = PreVRV.Version + 1

\* C18 as claimed: a view sent out, on a view's own channel or in a gossip
\* update, never carries a lower version than one sent out before for the
\* same (height, round).
C18_Original ==
    last.op = "emit"
    => \A e \in last.items :
          <<e.H, e.R>> \in DOMAIN last.before => e.Version >= last.before[<<e.H, e.R>>]

\* The vote summary of the round agrees with its proofs: every hash's
\* power and the total are the summed power of the validators whose
\* signature the round's proofs hold.
PrevoteSummaryMatches(vrv) ==
    LET pow == BlockPowers(vrv.Validators, vrv.PrevoteProofs)
    IN /\ \A h \in DOMAIN pow : Get0(vrv.VoteSummary.PrevoteBlockPower, h) = pow[h]
       /\ vrv.VoteSummary.TotalPrevotePower = SumMap(pow, DOMAIN pow)

PrecommitSummaryMatches(vrv) ==
    LET pow == BlockPowers(vrv.Validators, vrv.PrecommitProofs)
    IN /\ \A h \in DOMAIN pow : Get0(vrv.VoteSummary.PrecommitBlockPower, h) = pow[h]
       /\ vrv.VoteSummary.TotalPrecommitPower = SumMap(pow, DOMAIN pow)

\* A request was handled to its end.
IngestHandled ==
    /\ last.op \in {"addPrevote", "addPrecommit", "addPB"}
    /\ run = "running"

\* C19 as claimed: after any add-prevote, add-precommit or add-PB request
\* (its backfill into Committing included) the vote summary of every view
\* agrees with the proofs the view holds.
C19_Original ==
    IngestHandled
    => \A i \in 1..3 :
          /\ PrevoteSummaryMatches(Views[i].VRV)
          /\ PrecommitSummaryMatches(Views[i].VRV)

\* C19, the backfill alone: an add-PB request whose backfill added
\* signatures to Committing's precommit proofs leaves Committing's vote
\* summary agreeing with them.
C19_BackfillSummary ==
    (/\ IngestHandled
     /\ last.op = "addPB"
     /\ last.shift # "commit"
     /\ PrecommitSummaryMatches(last.pre.Committing.VRV)
     /\ Committing.VRV.PrecommitProofs # last.pre.Committing.VRV.PrecommitProofs)
    => PrecommitSummaryMatches(Committing.VRV)

\* A proposed block was added to Voting or NextRound and the handler ran
\* to its end.
BackfillHandled ==
    /\ IngestHandled
    /\ last.op = "addPB"
    /\ last.added
    /\ last.id \in {ViewIDVoting, ViewIDNextRound}

\* Committing's precommit proofs as the handler met them with the
\* signatures of the block's PrevCommitProof merged in.
BackfillMerged ==
    LET old == last.pre.Committing.VRV
        sigs == last.req.PB.Block.PrevCommitProof.Proofs
    IN [h \in DOMAIN old.PrecommitProofs |->
           IF h \in DOMAIN sigs
           THEN old.PrecommitProofs[h] \cup (sigs[h] \cap old.Validators)
           ELSE old.PrecommitProofs[h]]

\* The OverwritePrecommitProofs calls of the handler.
OverwritePrecommitCalls ==
    SelectSeq(last.calls, LAMBDA c : c.call = "OverwritePrecommitProofs")

\* What the backfill of the handled add-PB did, given the (height, round)
\* it is to persist under: the signatures are merged into Committing, and
\* exactly when that added a signature the whole precommit map is persisted
\* under (h, r) and Committing's outgoing copy is renewed and unsent.
BackfillDone(h, r) ==
    LET added == BackfillMerged # last.pre.Committing.VRV.PrecommitProofs
        stays == last.shift # "commit"
    IN /\ stays => Committing.VRV.PrecommitProofs = BackfillMerged
       /\ added => /\ OverwritePrecommitCalls =
                         <<[call |-> "OverwritePrecommitProofs", H |-> h, R |-> r,
                            Proofs |-> BackfillMerged]>>
                   /\ stays => /\ ~Committing.Outgoing.Sent
                               /\ Committing.Outgoing.VRV = Committing.VRV
                               /\ Committing.VRV.Version > last.pre.Committing.VRV.Version
       /\ ~added => /\ OverwritePrecommitCalls = <<>>
                    /\ stays => Committing = last.pre.Committing

\* A proposed block added to the Committing view: no backfill.
NoBackfillInCommitting ==
    (IngestHandled /\ last.op = "addPB" /\ last.id = ViewIDCommitting)
    => /\ OverwritePrecommitCalls = <<>>
       /\ Committing.VRV.PrecommitProofs = last.pre.Committing.VRV.PrecommitProofs

\* C20 as claimed: the backfill persists under the Committing view's own
\* (height, round).
C20_Original ==
    /\ BackfillHandled
          => BackfillDone(last.pre.Committing.VRV.Height, last.pre.Committing.VRV.Round)
    /\ NoBackfillInCommitting

\* C20, what the handler does instead: the backfill persists under the
\* block's height less one and the round its PrevCommitProof names.
C20_BackfillAsCoded ==
    /\ BackfillHandled
          => BackfillDone(last.req.PB.Block.Height - 1,
                          last.req.PB.Block.PrevCommitProof.Round)
    /\ NoBackfillInCommitting

\* The views that hold a round: Voting and NextRound always, Committing
\* once a round was committed or loaded into it.
InitializedViews ==
    {Voting, NextRound} \cup (IF Committing.VRV.Height >= InitialHeight THEN {Committing} ELSE {})

\* C21: in every state every initialized view has an entry for the nil hash
\* in its prevote proofs and in its precommit proofs, right after a commit
\* shift and after a round advance as at any other time.
C21_NilProofsPresent ==
    \A v \in InitializedViews :
        /\ NilHash \in DOMAIN v.VRV.PrevoteProofs
        /\ NilHash \in DOMAIN v.VRV.PrecommitProofs

C21_Witness ==
    /\ last.op \in {"addPB", "addPrecommit"}
    /\ last.shift = "commit"
    /\ Committing \in InitializedViews
    /\ Committing.VRV.PrecommitProofs[NilHash] = {}
    /\ "b" \in DOMAIN Committing.VRV.PrecommitProofs
    /\ Voting.VRV.PrevoteProofs = NilProofs
    /\ NextRound.VRV.PrecommitProofs = NilProofs

\* An add-PB request met a view that already held a proposed block with
\* the request's signature.
DuplicatePBHandled ==
    /\ last.op = "addPB"
    /\ last.status = ViewFound
    /\ \E i \in 1..Len(PreVRV.ProposedBlocks) :
          PreVRV.ProposedBlocks[i].Signature = last.req.PB.Signature

\* C22: no view holds two proposed blocks with the same signature, and an
\* add-PB request whose signature a proposed block of the matching view
\* already has is dropped: the three views are wholly as before (proposed
\* blocks, versions, outgoing copy and its sent flag), the committing block
\* stays, nothing is persisted or backfilled (the only calls are cancels of
\* fetch contexts) and no view shifts.
C22_DuplicatePBDropped ==
    /\ \A v \in {Committing, Voting, NextRound} :
          \A i, j \in 1..Len(v.VRV.ProposedBlocks) :
             i # j => v.VRV.ProposedBlocks[i].Signature # v.VRV.ProposedBlocks[j].Signature
    /\ DuplicatePBHandled
          => /\ ViewsUnchanged
             /\ CommittingBlock = last.pre.CommittingBlock
             /\ NilVotedRound = last.pre.NilVotedRound
             /\ ~last.added
             /\ last.shift = "none"
             /\ \A i \in 1..Len(last.calls) : last.calls[i].call = "cancel"
             /\ run = "running"

\* A duplicate that differs from the block the view holds and that would
\* have stopped the kernel had it been backfilled: its PrevCommitProof has
\* signatures for a hash Committing has no precommit proof for.
C22_Witness ==
    /\ DuplicatePBHandled
    /\ last.id = ViewIDVoting
    /\ last.req.PB # PreVRV.ProposedBlocks[1]
    /\ Committing.VRV.Height >= InitialHeight
    /\ \E h \in DOMAIN last.req.PB.Block.PrevCommitProof.Proofs :
          h \notin DOMAIN Committing.VRV.PrecommitProofs
    /\ ViewsUnchanged
    /\ run = "running"

\* The cancel funcs of fetch contexts the handler called.
CancelCalls == SelectSeq(last.calls, LAMBDA c : c.call = "cancel")

\* A request was handled that moved voting on, to the next round or, by a
\* commit, to the next height.
ShiftHandled ==
    /\ last.op \in {"addPrevote", "addPrecommit", "addPB"}
    /\ run = "running"
    /\ last.shift \in {"advance", "commit"}

\* C23 as claimed: when voting moves on, by a round advance or by a commit,
\* every fetch that was in flight for the round left behind is cancelled.
C23_Original ==
    ShiftHandled
    => \A hash \in DOMAIN last.pre.InFlightFetchPBs :
          \E i \in 1..Len(CancelCalls) :
             CancelCalls[i].Fetch = last.pre.InFlightFetchPBs[hash]

\* C23, what the handlers do instead: an entry of InFlightFetchPBs is
\* cancelled and removed by the arrival of a proposed block with its hash
\* and by nothing else; a round advance or a commit leaves it in place.
C23_ReleasedOnArrivalOnly ==
    last.op \in {"addPrevote", "addPrecommit", "addPB"}
    => /\ \A hash \in DOMAIN last.pre.InFlightFetchPBs :
             IF last.op = "addPB" /\ last.req.PB.Block.Hash = hash
             THEN /\ CancelCalls = <<[call |-> "cancel",
                                      Fetch |-> last.pre.InFlightFetchPBs[hash]]>>
                  /\ hash \notin DOMAIN InFlightFetchPBs
             ELSE /\ hash \in DOMAIN InFlightFetchPBs
                  /\ InFlightFetchPBs[hash] = last.pre.InFlightFetchPBs[hash]
       /\ (last.op = "addPB" /\ last.req.PB.Block.Hash \in DOMAIN last.pre.InFlightFetchPBs)
             \/ CancelCalls = <<>>

\* A request handler ran in the step.
HandlerStep ==
    /\ last' # last
    /\ last'.op \notin {"none", "emit"}

\* The context of every fetch in flight derives from the kernel's context
\* and is cancelled with it.
FetchCtxDone(hash) == ctxDone

\* C24 as claimed: once the kernel's context is cancelled no request is
\* handled any more.
C24_Original == [][ctxDone => ~HandlerStep]_vars

\* C24 as amended: after the kernel's context is cancelled the loop may
\* still take receive cases that are ready at the same select, but it does
\* take the shutdown case in the end (unless a handler panics first); once
\* it has, the done signal is closed, no request is handled and the kState
\* changes no more, and the context of every fetch in flight is cancelled.
C24_StopsOnShutdownCase ==
    /\ ctxDone ~> run # "running"
    /\ [](run = "stopped"
            => /\ ctxDone
               /\ \A hash \in DOMAIN InFlightFetchPBs : FetchCtxDone(hash))
    /\ [][run = "stopped"
            => /\ ~HandlerStep
               /\ UNCHANGED <<kStateVars, commits, run, changes, pending, stateUpdate, mirrorStoreNHR>>]_vars

\* The loop returned while a fetch was in flight.
C24_Witness ==
    /\ run = "stopped"
    /\ ctxDone
    /\ InFlightFetchPBs # EmptyMap
    /\ changes = MaxLoopChanges

\* C25: in a kernel whose view outputs nobody receives, every request that
\* waits on an input channel (add-PB, add-prevote, add-precommit, snapshot,
\* view lookup, PB check, round update) is handled in the end, unless the
\* kernel stops first; all the while the views sent out stay unreceived.
C25_InputsNeverBlocked ==
    /\ pending # <<>> ~> (pending = <<>> \/ run # "running")
    /\ [][/\ Voting'.Outgoing.Sent => Voting.Outgoing.Sent
          /\ Committing'.Outgoing.Sent => Committing.Outgoing.Sent
          /\ NextRound'.Outgoing.Sent => NextRound.Outgoing.Sent]_vars

\* A prevote was handled, and changed the voting view, while all three
\* views waited on their output channels.
C25_Witness ==
    /\ last.op = "addPrevote"
    /\ Voting.VRV # last.pre.Voting.VRV
    /\ pending = <<>>
    /\ run = "running"
    /\ changes = MaxLoopChanges
    /\ ~last.pre.Voting.Outgoing.Sent
    /\ ~Voting.Outgoing.Sent /\ ~Committing.Outgoing.Sent /\ ~NextRound.Outgoing.Sent

\* The step is a send on the view channel ch.
EmittedOn(ch) == last = NoEvent /\ last'.op = "emit" /\ last'.ch = ch

\* What C26 asks of a view and its channel in every step.
OncePerState(view, viewAfter, ch) ==
    /\ EmittedOn(ch)
          => /\ ~view.Outgoing.Sent
             /\ viewAfter.Outgoing.Sent
             /\ viewAfter.Outgoing.VRV = view.Outgoing.VRV
             /\ last'.items = {EmissionOf(view.Outgoing.VRV, ch)}
    /\ (view.Outgoing.Sent /\ ~viewAfter.Outgoing.Sent)
          => viewAfter.Outgoing.VRV # view.Outgoing.VRV

\* C26: a send on a view's channel happens only while the view's outgoing
\* state is unsent, carries that state and marks it sent; a sent outgoing
\* state becomes unsent again only by being replaced with a different one.
\* So no outgoing state goes out twice on a view's channel.
C26_OfferedOnlyWhileDirty ==
    [][/\ OncePerState(Voting, Voting', "voting")
       /\ OncePerState(Committing, Committing', "committing")
       /\ OncePerState(NextRound, NextRound', "nextRound")]_vars

\* The voting view went out on its channel with a later version of a round
\* that had gone out before.
C26_Witness ==
    /\ last.op = "emit"
    /\ last.ch = "voting"
    /\ Voting.Outgoing.Sent
    /\ <<Voting.VRV.Height, Voting.VRV.Round>> \in DOMAIN last.before
    /\ last.before[<<Voting.VRV.Height, Voting.VRV.Round>>] < Voting.Outgoing.VRV.Version

\* C27 as claimed: a nil voted round that waits for the gossip layer leaves
\* the kernel only by a gossip emission that carries it.
C27_Original ==
    [][(NilVotedRound # <<>> /\ NilVotedRound' # NilVotedRound)
          => /\ EmittedOn("gossip")
             /\ EmissionOf(NilVotedRound[1], "gossip") \in last'.items]_vars

\* C27, what the kernel does: it keeps one nil voted round, the latest;
\* every advance of the voting round stores the round left behind over
\* whatever waited there, and a gossip emission carries and clears it.
C27_LatestRoundOnly ==
    [][/\ (last'.op \in {"addPrevote", "addPrecommit"} /\ last' # last
            /\ last'.shift = "advance" /\ run' = "running")
          => /\ Len(NilVotedRound') = 1
             /\ NilVotedRound'[1].Height = Voting.VRV.Height
             /\ NilVotedRound'[1].Round = Voting.VRV.Round
             /\ Voting'.VRV.Height = Voting.VRV.Height
             /\ Voting'.VRV.Round = Voting.VRV.Round + 1
       /\ EmittedOn("gossip")
          => /\ NilVotedRound' = <<>>
             /\ \A i \in DOMAIN NilVotedRound :
                   EmissionOf(NilVotedRound[i], "gossip") \in last'.items]_vars

\* The vote summary of the request's round as the handler left it.
PostVoteSummary == PostVRV.VoteSummary

\* A vote request for the view with the given id was accepted.
AcceptedFor(op, id) ==
    /\ last.op = op
    /\ last.id = id
    /\ last.resp = AddVoteAccepted
    /\ run = "running"

\* The view shifts follow the thresholds maj and min: accepted precommits
\* for the voting round commit exactly when a block that is present has maj
\* power, and advance the round exactly when nil has maj power or everybody
\* has precommitted without a majority; accepted prevotes for the next
\* round advance the round exactly when min power has prevoted there.
ShiftsFollow(maj, min) ==
    /\ AcceptedFor("addPrecommit", ViewIDVoting)
          => LET vs == PostVoteSummary
                 h == vs.MostVotedPrecommitHash
                 pow == Get0(vs.PrecommitBlockPower, h)
             IN /\ vs.AvailablePower = ScenarioNumVals * VotePower
                /\ last.shift = "commit" <=> (pow >= maj /\ h # NilHash /\ HasPB(PostVRV, h))
                /\ last.shift = "stuck" <=> (pow >= maj /\ h # NilHash /\ ~HasPB(PostVRV, h))
                /\ last.shift = "advance"
                      <=> \/ pow >= maj /\ h = NilHash
                          \/ pow < maj /\ vs.TotalPrecommitPower = vs.AvailablePower
    /\ AcceptedFor("addPrevote", ViewIDNextRound)
          => /\ PostVoteSummary.AvailablePower = ScenarioNumVals * VotePower
             /\ last.shift = "advance" <=> PostVoteSummary.TotalPrevotePower >= min

\* C28 as claimed: with the scenarios' four validators of power 10 the
\* view shifts follow maj = 31 and min = 14.
C28_Original == ShiftsFollow(31, 14)

\* C28 as amended: with the scenarios' four validators of power 10 the
\* thresholds are maj = floor(2 * 40 / 3) + 1 = 27 and min =
\* floor(40 / 3) + 1 = 14, and the view shifts follow them.
C28_ThresholdsOfForty ==
    /\ ByzantineMajority(ScenarioNumVals * VotePower) = 27
    /\ ByzantineMinority(ScenarioNumVals * VotePower) = 14
    /\ ShiftsFollow(27, 14)

\* Three of the four validators precommitted for a block that is present:
\* 30 power, less than 31, and the block committed.
C28_Witness ==
    /\ AcceptedFor("addPrecommit", ViewIDVoting)
    /\ last.shift = "commit"
    /\ PostVoteSummary.AvailablePower = 40
    /\ PostVoteSummary.PrecommitBlockPower[PostVoteSummary.MostVotedPrecommitHash] = 30

\* What the holder of a handed-out view reads in it now: its own maps when
\* it was given a clone; the kernel's maps when it was given a struct copy
\* of a view and one of the three views still tracks that round.
Deref(ho) ==
    LET f == FindView(Here, ho.VRV.Height, ho.VRV.Round)
    IN IF ho.Live /\ f.status = ViewFound
       THEN [ho.VRV EXCEPT !.PrevoteProofs = ViewOf(Here, f.id).VRV.PrevoteProofs,
                           !.PrecommitProofs = ViewOf(Here, f.id).VRV.PrecommitProofs]
       ELSE ho.VRV

\* C29 as claimed: the view sent to the state machine in answer to its
\* round update stays as it was sent, whatever the kernel does afterwards.
C29_Original ==
    (stateUpdate # <<>> /\ stateUpdate[1].VRV # <<>>)
       => Deref(stateUpdate[1].VRV[1]) = stateUpdate[1].VRV[1].VRV

\* The status C30 gives a PB check, from the views the handler met.
ClaimedPBCheckStatus ==
    LET pbHeight == last.req.PB.Block.Height
        pbRound == last.req.PB.Round
        committing == last.pre.Committing.VRV
        voting == last.pre.Voting.VRV
    IN IF pbHeight < committing.Height THEN PBCheckRoundTooOld
       ELSE IF pbHeight = committing.Height /\ pbRound < committing.Round
       THEN PBCheckRoundTooOld
       ELSE IF pbHeight = committing.Height /\ pbRound = committing.Round
       THEN setPBCheckStatus(last.req, committing).Status
       ELSE IF pbHeight = voting.Height /\ pbRound < voting.Round THEN PBCheckRoundTooOld
       ELSE IF pbHeight = voting.Height /\ pbRound = voting.Round
       THEN setPBCheckStatus(last.req, voting).Status
       ELSE IF pbHeight = voting.Height /\ pbRound = voting.Round + 1
       THEN setPBCheckStatus(last.req, last.pre.NextRound.VRV).Status
       ELSE IF pbHeight = voting.Height + 1 THEN PBCheckNextHeight
       ELSE PBCheckRoundTooFarInFuture

\* The PB is for a later round of a tracked height than any view holds.
BeyondTracked ==
    LET pbHeight == last.req.PB.Block.Height
        pbRound == last.req.PB.Round
    IN \/ pbHeight = last.pre.Committing.VRV.Height /\ pbRound > last.pre.Committing.VRV.Round
       \/ pbHeight = last.pre.Voting.VRV.Height /\ pbRound > last.pre.Voting.VRV.Round + 1

\* C30 as claimed: every PB check is answered, with the status its height
\* and round have relative to the views (RoundTooFarInFuture for whatever
\* is beyond them), and handling it changes no kernel state.
C30_Original ==
    last.op = "pbCheck"
    => /\ run # "panicked"
       /\ last.resp.Status = ClaimedPBCheckStatus
       /\ Here = last.pre

\* C30, what the kernel does: a PB check changes no kernel state; it is
\* answered with the claimed status unless the PB is for a round of the
\* committing height after the committing round, or of the voting height
\* after the next round: then the handler panics and nothing is answered.
C30_AnsweredUnlessBeyond ==
    last.op = "pbCheck"
    => /\ Here = last.pre
       /\ IF BeyondTracked
          THEN run = "panicked" /\ last.resp = NoResponse
          ELSE /\ run # "panicked"
               /\ last.resp.Status = ClaimedPBCheckStatus

\* A vote request made the voting round advance.
AdvanceHandled ==
    /\ VoteHandled
    /\ last.shift = "advance"
    /\ run = "running"

\* The two views hold the same round with the same content, whatever
\* their overall versions.
SameContent(a, b) ==
    /\ a.Height = b.Height /\ a.Round = b.Round
    /\ a.Validators = b.Validators
    /\ a.ProposedBlocks = b.ProposedBlocks
    /\ a.PrevoteProofs = b.PrevoteProofs
    /\ a.PrecommitProofs = b.PrecommitProofs
    /\ a.PrevoteBlockVersions = b.PrevoteBlockVersions
    /\ a.PrecommitBlockVersions = b.PrecommitBlockVersions

\* post is pre with the fresh updates of the request installed and nothing
\* else of its content changed.
RequestInstalled(pre, post) ==
    /\ post.Height = pre.Height /\ post.Round = pre.Round
    /\ post.Validators = pre.Validators
    /\ post.ProposedBlocks = pre.ProposedBlocks
    /\ IF last.op = "addPrevote"
       THEN /\ post.PrecommitProofs = pre.PrecommitProofs
            /\ post.PrecommitBlockVersions = pre.PrecommitBlockVersions
       ELSE /\ post.PrevoteProofs = pre.PrevoteProofs
            /\ post.PrevoteBlockVersions = pre.PrevoteBlockVersions
    /\ \A h \in FreshInRequest : HashInstalled(h)
    /\ \A h \in Hashes \ FreshInRequest : HashUntouched(h)

\* C31: a round advance from Voting (h, r) makes Voting the content
\* NextRound had at (h, r + 1) (proposed blocks, proofs, per-hash versions,
\* the votes of the request that caused the advance included) with the
\* overall version restarted; makes NextRound an empty view at (h, r + 2)
\* with only the nil proofs; stashes the voting round as it was left in
\* NilVotedRound; leaves both views' outgoing state unsent and equal to
\* the view; and leaves Committing and CommittingBlock as they were.
C31_AdvanceFrame ==
    AdvanceHandled
    => /\ Voting.VRV.Height = last.pre.Voting.VRV.Height
       /\ Voting.VRV.Round = last.pre.Voting.VRV.Round + 1
       /\ Voting.VRV.Version = 1
       /\ IF last.id = ViewIDNextRound
          THEN /\ RequestInstalled(last.pre.NextRound.VRV, Voting.VRV)
               /\ NilVotedRound = <<last.pre.Voting.VRV>>
          ELSE /\ SameContent(Voting.VRV, last.pre.NextRound.VRV)
               /\ Len(NilVotedRound) = 1
               /\ RequestInstalled(last.pre.Voting.VRV, NilVotedRound[1])
       /\ ReinitializedVRV(NextRound.VRV, Voting.VRV, last.pre.Voting.VRV.Round + 2)
       /\ ~Voting.Outgoing.Sent /\ Voting.Outgoing.VRV = Voting.VRV
       /\ ~NextRound.Outgoing.Sent /\ NextRound.Outgoing.VRV = NextRound.VRV
       /\ Committing = last.pre.Committing
       /\ CommittingBlock = last.pre.CommittingBlock

\* Prevotes for a block made voting advance into a next round that held a
\* proposed block.
C31_Witness ==
    /\ AdvanceHandled
    /\ last.op = "addPrevote"
    /\ last.id = ViewIDNextRound
    /\ Voting.VRV.ProposedBlocks # <<>>
    /\ \E h \in BlockHashes : h \in DOMAIN Voting.VRV.PrevoteProofs
    /\ NextRound.VRV.Round = 2

\* The fetch requests the handler put on the FetchRequests channel.
NewFetches == SubSeq(fetchRequests, Len(last.pre.fetchRequests) + 1, Len(fetchRequests))

\* The hash has at least minority power in the proofs, measured with the
\* validators of the view.
MinorityIn(hash, proofs, vrv) ==
    /\ hash \in DOMAIN proofs
    /\ ProofPower(proofs[hash], vrv.Validators)
          >= ByzantineMinority(SumPower(vrv.Validators))

\* The conditions under which checkMissingPBs asks for the block: called
\* with the proofs just updated while vrv was voting.
FetchDue(hash, proofs, vrv) ==
    /\ hash # NilHash
    /\ ~HasPB(vrv, hash)
    /\ MinorityIn(hash, proofs, vrv)

\* C32: a vote handler sends a fetch request for a hash only when the hash
\* is a block's, Voting has no proposed block with it, no fetch for it was
\* in flight and it has minority power in the proof map just updated (of
\* the request's round or, after a round advance, of the new voting
\* round); the request is for the voting height; and InFlightFetchPBs
\* gains exactly the hashes whose requests were enqueued, so no hash has
\* two fetches in flight.
C32_FetchOnlyWhenDue ==
    FoundVoteHandled
    => /\ fetchRequests = last.pre.fetchRequests \o NewFetches
       /\ \A i \in DOMAIN NewFetches :
             LET fr == NewFetches[i]
             IN /\ fr.Height = last.pre.Voting.VRV.Height
                /\ fr.BlockHash \notin DOMAIN last.pre.InFlightFetchPBs
                /\ \A j \in DOMAIN NewFetches : j # i => NewFetches[j].BlockHash # fr.BlockHash
                /\ \/ FetchDue(fr.BlockHash, ProofsOf(PostVRV), last.pre.Voting.VRV)
                   \/ /\ last.shift = "advance"
                      /\ FetchDue(fr.BlockHash, ProofsOf(Voting.VRV), Voting.VRV)
                /\ fr.BlockHash \in DOMAIN InFlightFetchPBs
                /\ InFlightFetchPBs[fr.BlockHash] = fr
       /\ DOMAIN InFlightFetchPBs
             = (DOMAIN last.pre.InFlightFetchPBs)
                  \cup {NewFetches[i].BlockHash : i \in DOMAIN NewFetches}
       /\ \A h \in DOMAIN last.pre.InFlightFetchPBs :
             InFlightFetchPBs[h] = last.pre.InFlightFetchPBs[h]

\* A fetch for one block was in flight and votes for the other block made
\* the handler ask for that one as well.
C32_Witness ==
    /\ FoundVoteHandled
    /\ Len(NewFetches) = 1
    /\ last.pre.InFlightFetchPBs # EmptyMap
    /\ Cardinality(DOMAIN InFlightFetchPBs) = 2

\* An add-PB request was handled whose height and round no view tracks.
UnmatchedPBHandled == last.op = "addPB" /\ last.status # ViewFound

\* C33: a proposed block whose (height, round) matches none of
\* Committing, Voting and NextRound is dropped: the three views (proposed
\* blocks, versions, outgoing state and flag), the committing block, the
\* nil voted round, the state machine's view and the FetchRequests channel
\* are as before, nothing is persisted, no view shifts and the kernel keeps
\* running; the one effect is that a fetch in flight for the block's hash
\* is cancelled and its entry removed, the other entries staying.
C33_UnmatchedPBDropped ==
    UnmatchedPBHandled
    => LET hash == last.req.PB.Block.Hash
       IN /\ ViewsUnchanged
          /\ CommittingBlock = last.pre.CommittingBlock
          /\ NilVotedRound = last.pre.NilVotedRound
          /\ StateMachineView = last.pre.StateMachineView
          /\ fetchRequests = last.pre.fetchRequests
          /\ ~last.added
          /\ last.shift = "none"
          /\ run # "panicked"
          /\ DOMAIN InFlightFetchPBs = (DOMAIN last.pre.InFlightFetchPBs) \ {hash}
          /\ \A h \in DOMAIN InFlightFetchPBs :
                InFlightFetchPBs[h] = last.pre.InFlightFetchPBs[h]
          /\ last.calls = IF hash \in DOMAIN last.pre.InFlightFetchPBs
                          THEN <<[call |-> "cancel", Fetch |-> last.pre.InFlightFetchPBs[hash]]>>
                          ELSE <<>>

\* The fetcher delivered a block for a round the kernel does not track,
\* and the fetch for its hash was released.
C33_Witness ==
    /\ UnmatchedPBHandled
    /\ last.req.PB.Block.Hash \in DOMAIN last.pre.InFlightFetchPBs
    /\ last.req.PB.Block.Hash \notin DOMAIN InFlightFetchPBs
    /\ last.status = ViewFutureNotYetTracked

\* The view has what a commit or a nil round advance takes: a majority of
\* precommit power for a block it holds, or for nil.
ShiftReady(vrv) == CommitReady(vrv) \/ NilMajority(vrv)

\* C34 as claimed: in a kernel at rest the voting view never has a majority
\* of precommit power for a block it holds, nor for nil.
C34_Original == run = "running" => ~ShiftReady(Voting.VRV)

\* C34, what the kernel does: a handler leaves Voting with such a majority
\* only when the precommits that made it came in a request answered
\* Conflict (some of its updates installed, the view shift check skipped),
\* to Voting or earlier to the NextRound that has since become Voting.
C34_ReadyOnlyPastConflict ==
    (/\ last.op \in {"addPB", "addPrevote", "addPrecommit"}
     /\ run = "running"
     /\ ShiftReady(Voting.VRV)
     /\ ~ShiftReady(last.pre.Voting.VRV))
    => \/ last.op = "addPrecommit" /\ last.resp = AddVoteConflict /\ last.id = ViewIDVoting
       \/ last.shift = "advance" /\ HasPrecommitMajority(last.pre.NextRound.VRV)

(***************************************************************************)
(* C35: no network input drives the kernel into a panic: after an add-PB,  *)
(* an add-prevote or an add-precommit was handled the event loop is back   *)
(* at its select, and a vote request has received its response.            *)
(***************************************************************************)
C35_Original ==
    last.op \in {"addPB", "addPrevote", "addPrecommit"}
    => /\ run = "running"
       /\ last.op \in {"addPrevote", "addPrecommit"} => last.resp # NoResponse

(***************************************************************************)
(* Requests built on snapshots.  Seven validators of equal power; every    *)
(* precommit request carries, for one hash, the proof of a snapshot of the *)
(* view with the signatures of the first k validators merged in, and the   *)
(* per-hash version of that snapshot.  One sender may wait on the          *)
(* unbuffered channel with its request while the requests of other         *)
(* senders are handled.                                                    *)
(***************************************************************************)
SnapVals == 1..SnapNumVals

SnapKernel ==
    LET store == CHOOSE st \in Stores : st.Uninitialized
    IN [NewKernel(store) EXCEPT
          !.Voting = LoadedView(loadInitialView(store, InitialHeight, 0, SnapVals)),
          !.NextRound = LoadedView(loadInitialView(store, InitialHeight, 1, SnapVals))]

SnapInit ==
    /\ Committing = SnapKernel.Committing
    /\ Voting = SnapKernel.Voting
    /\ NextRound = SnapKernel.NextRound
    /\ CommittingBlock = SnapKernel.CommittingBlock
    /\ InFlightFetchPBs = SnapKernel.InFlightFetchPBs
    /\ NilVotedRound = SnapKernel.NilVotedRound
    /\ StateMachineView = SnapKernel.StateMachineView
    /\ mirrorStoreNHR = StoredNHR(CHOOSE st \in Stores : st.Uninitialized)
    /\ fetchRequests = <<>>
    /\ commits = <<>>
    /\ ctxDone = FALSE
    /\ run = "running"
    /\ changes = 0
    /\ last = NoEvent
    /\ sent = EmptyMap
    /\ pending = <<>>
    /\ stateUpdate = <<>>

\* The numbers of signers that make a majority of the power.
SnapSignerCounts ==
    {k \in 1..SnapNumVals : VotePower * k >= ByzantineMajority(VotePower * SnapNumVals)}

\* The precommit proof for hash h in a snapshot of the view.
SnapshotProof(vrv, h) ==
    IF h \in DOMAIN vrv.PrecommitProofs THEN vrv.PrecommitProofs[h] ELSE {}

\* The update a caller computes on a snapshot of the view: the snapshot's
\* proof with the first k validators' signatures merged in, and the version
\* the snapshot has for the hash.
SnapshotMerged(vrv, h, k) ==
    Update(SnapshotProof(vrv, h) \cup 1..k, vrv.PrecommitBlockVersions[h])

\* The precommit requests callers build on a snapshot taken now, for the
\* voting or the committing round; a caller sends nothing when it has no
\* signature to add.
SnapPrecommits ==
    {VoteRequest("addPrecommit", view.VRV.Height, view.VRV.Round,
                 Single(h, SnapshotMerged(view.VRV, h, k)))
       : h \in Hashes, k \in SnapSignerCounts,
         view \in {w \in {Voting, Committing} :
                      w.VRV.Height >= InitialHeight}}

SnapRequests ==
    {req \in SnapPrecommits :
        \E view \in {Voting, Committing} :
           /\ view.VRV.Height = req.H /\ view.VRV.Round = req.R
           /\ \E h \in DOMAIN req.Updates :
                 req.Updates[h].Proof # SnapshotProof(view.VRV, h)}

\* The proposed blocks of the voting round: without a commit proof, or with
\* every validator's precommit for the committing block.
SnapPBs ==
    {[op |-> "addPB", From |-> "network",
      PB |-> [ProposedBlock(Voting.VRV.Height, Voting.VRV.Round, "a", pcp, SnapVals)
                 EXCEPT !.Block.NextValidators = SnapVals]]
       : pcp \in {CommitProof(Committing.VRV.Round, EmptyMap)}
                 \cup (IF CommittingBlock.Hash # NilHash
                       THEN {CommitProof(Committing.VRV.Round,
                                         Single(CommittingBlock.Hash, SnapVals))}
                       ELSE {})}

\* A caller has built its request and starts to wait on addPrecommitRequests.
SnapPlace ==
    /\ Accepting(MaxSnapChanges)
    /\ pending = <<>>
    /\ \E req \in SnapRequests : pending' = <<req>>
    /\ UNCHANGED <<Committing, Voting, NextRound, CommittingBlock, InFlightFetchPBs,
                   NilVotedRound, StateMachineView, fetchRequests, commits, ctxDone,
                   run, changes, last, sent, stateUpdate, mirrorStoreNHR>>

SnapAddPB == Accepting(MaxSnapChanges) /\ HandleAddPB(SnapPBs)

SnapAddPrecommit == Accepting(MaxSnapChanges) /\ HandleAddPrecommit(SnapRequests)

\* The request that waited is received.
SnapReceive == last = NoEvent /\ LoopAddPrecommit

SnapNext ==
    \/ SnapPlace \/ SnapAddPB \/ SnapAddPrecommit \/ SnapReceive
    \/ FetcherReceive \/ Settle

SpecSnap == SnapInit /\ [][SnapNext]_vars

\* The request last handled is a precommit request to the committing view.
CommittingPrecommitHandled ==
    /\ last.op = "addPrecommit"
    /\ last.status = ViewFound
    /\ last.id = ViewIDCommitting
    /\ run = "running"

(***************************************************************************)
(* C36: for every hash of the Committing view the set of validators        *)
(* recorded as having precommitted never shrinks: a precommit request      *)
(* built on a snapshot, handled after any other requests (backfilling      *)
(* add-PBs among them), leaves every signature the view had.               *)
(***************************************************************************)
C36_Original ==
    CommittingPrecommitHandled
    => \A h \in DOMAIN last.pre.Committing.VRV.PrecommitProofs :
          last.pre.Committing.VRV.PrecommitProofs[h] \subseteq SnapshotProof(Committing.VRV, h)

(***************************************************************************)
(* C37: whenever InFlightFetchPBs contains a hash, none of the Committing, *)
(* Voting and NextRound views holds a proposed block with that hash.       *)
(***************************************************************************)
C37_Original ==
    run = "running"
    => \A x \in DOMAIN InFlightFetchPBs :
          \A view \in {Committing, Voting, NextRound} : ~HasPB(view.VRV, x)

\* The network height and round of the views in memory.
InMemoryNHR ==
    NetworkHeightRound(Voting.VRV.Height, Voting.VRV.Round,
                       Committing.VRV.Height, Committing.VRV.Round)

(***************************************************************************)
(* C38: after every view shift (commit shift or round advance) the network *)
(* height and round in the MirrorStore equal the heights and rounds of the *)
(* Voting and Committing views in memory.                                  *)
(***************************************************************************)
C38_Original ==
    (last.op # "none" /\ run = "running" /\ last.shift \in {"advance", "commit"})
    => mirrorStoreNHR = InMemoryNHR

\* The view's outgoing state is marked sent and is not the view's content.
Unpublished(view) == view.Outgoing.Sent /\ view.Outgoing.VRV # view.VRV

(***************************************************************************)
(* C39: whenever a view's outgoing state is marked sent, the outgoing      *)
(* snapshot equals the view's current content: every mutation of a view    *)
(* marks its outgoing state unsent with a snapshot of the new content.     *)
(***************************************************************************)
C39_SentMeansCurrent ==
    run = "running" => \A view \in {Committing, Voting, NextRound} : ~Unpublished(view)


\* A prevote changed a voting view whose outgoing state had been sent, while
\* the committing view's outgoing state stays sent.
C39_Witness ==
    /\ last.op = "addPrevote"
    /\ run = "running"
    /\ last.pre.Voting.Outgoing.Sent
    /\ Voting.VRV # last.pre.Voting.VRV
    /\ ~Voting.Outgoing.Sent
    /\ Voting.Outgoing.VRV = Voting.VRV
    /\ Committing.Outgoing.Sent
    /\ Committing.VRV.Height >= InitialHeight

\* The views whose outgoing value is the emitted item.
ViewsOf(e) ==
    {view \in {Voting, Committing, NextRound} :
        /\ view.Outgoing.VRV.Height = e.H
        /\ view.Outgoing.VRV.Round = e.R
        /\ view.Outgoing.VRV.Version = e.Version}

(***************************************************************************)
(* C40: delivery to one consumer does not suppress delivery to another:    *)
(* once a view's change was emitted on the view's own channel the gossip   *)
(* output still offers it, and once it was emitted in a gossip update the  *)
(* view's own channel still offers it.                                     *)
(***************************************************************************)
C40_Original ==
    last.op = "emit"
    => \A e \in last.items :
          \A view \in ViewsOf(e) :
             IF last.ch = "gossip" THEN Offered(view)
             ELSE EmissionOf(view.Outgoing.VRV, "gossip") \in gossipStrategyOutput

====
